---- MODULE Spec2Model ----
(***************************************************************************)
(* Model of the Discord VPS bot (src/main.py and its longer sibling        *)
(* src/bot.py): the IP pool file, the /create approval workflow, and the   *)
(* two interactive views it waits on.                                      *)
(*                                                                         *)
(* The pool file is a sequence of characters.  An IP address is abstracted *)
(* to a single letter; "#", " " and the newline are themselves.            *)
(***************************************************************************)
EXTENDS Integers, Sequences, FiniteSets, TLC

VARIABLES
    build,                          \* which source file runs: "main" or "bot"
    ipfile,                         \* ips.txt: [exists, data]
    invite_counts,                  \* invite_counts[guild][user], a dict of dicts
    BOOST_REWARDS_ENABLED,
    INVITE_REWARDS_ENABLED_GLOBAL,
    req,                            \* per /create invocation: locals of create_vps
    plan_view,                      \* per invocation: its PlanSelectView
    admin_view,                     \* per invocation: its AdminConfirmationView
    obs,                            \* per invocation: what it did (history)
    linked_accounts,                \* bot.linked_accounts: discord id -> panel id
    pool,                           \* history of direct calls on the pool file
    guild_invite_cache,             \* guild_invite_cache[guild]: code -> uses
    env,                            \* members who joined, link commands run
    store_files,                    \* linked_accounts.json and invite_counts.json
    api                             \* bot.http_session and the last make_api_request

vars == <<build, ipfile, invite_counts, BOOST_REWARDS_ENABLED,
          INVITE_REWARDS_ENABLED_GLOBAL, req, plan_view, admin_view, obs,
          linked_accounts, pool,
                   guild_invite_cache, env, store_files, api>>

----------------------------------------------------------------------------
(* Bounds *)

MaxPoolLines  == 3      \* lines of the pool file when the pool is driven alone
MaxPoolOps    == 3      \* direct pool calls in one run
MaxClicks     == 2      \* button clicks on one approval request
MaxCount      == 2      \* largest invite count at start
MaxOrderLines == 2      \* lines of the pool file when the order of calls is followed
MaxOrderOps   == 4      \* direct pool calls when the order of calls is followed
MaxLinkOps    == 1      \* calls of link_user_account and unlink_user_account
MaxStoreClicks == 1     \* button clicks on one approval request, runs with joins
MaxLinkCalls  == 3      \* link and unlink calls when the link store is driven alone
MaxUses       == 2      \* largest use count of an invite
MaxRaceClicks == 1      \* clicks on each approval view when two requests run together
MaxApiCalls   == 1      \* calls of make_api_request when it is driven alone

Reqs   == {"r1"}
Guilds == {"g1"}
Users  == {"u1", "a1", "a2"}
\* members holding the role VPS_CREATOR_ROLE_ID
VpsCreators == {"a1", "a2"}
\* accounts that join the guild during a run
Joiners == {"m1"}
\* user ids of the panel
PanelIds == {"7", "8"}

None == "None"

----------------------------------------------------------------------------
(* Text of the pool file *)

NL == "\n"
IpChars == {"A", "B", "C"}
Whitespace == {" ", NL}

RECURSIVE Concat(_)
Concat(ss) == IF ss = <<>> THEN <<>> ELSE Head(ss) \o Concat(Tail(ss))

\* file.readlines(): every line keeps its newline; the last may lack one
RECURSIVE readlines(_)
readlines(s) ==
    IF s = <<>> THEN <<>>
    ELSE LET ends == {i \in 1..Len(s) : s[i] = NL}
             k    == IF ends = {} THEN Len(s)
                     ELSE CHOOSE i \in ends : \A j \in ends : i <= j
         IN  <<SubSeq(s, 1, k)>> \o readlines(SubSeq(s, k + 1, Len(s)))

\* str.strip(): drop leading and trailing whitespace
strip(s) ==
    LET keep == {i \in 1..Len(s) : s[i] \notin Whitespace}
    IN  IF keep = {} THEN <<>>
        ELSE LET lo == CHOOSE i \in keep : \A j \in keep : i <= j
                 hi == CHOOSE i \in keep : \A j \in keep : j <= i
             IN  SubSeq(s, lo, hi)

startswith(s, c) == s # <<>> /\ s[1] = c

\* the test of the loop in get_and_remove_first_ip: stripped_line is not
\* empty and does not start with '#'
IsEntryNoComment(line) == strip(line) # <<>>
IsEntry(line) == strip(line) # <<>> /\ ~startswith(strip(line), "#")

\* None, as returned by get_and_remove_first_ip; a found entry is never empty
NoIp == <<>>

NoFile == [exists |-> FALSE, data |-> <<>>]
FileOf(s) == [exists |-> TRUE, data |-> s]

\* the header written when ips.txt is missing (its text is one '#' here)
HeaderComment == <<"#", NL>>

\* how a write of the pool file can end: done; open() raises IOError and the
\* file is untouched; the buffered write raises after open() truncated it
WriteOutcomes == {"ok", "open_fails", "write_fails"}

\* how an append to the pool file can end: append mode never truncates, so a
\* failure leaves the file as it was
AppendOutcomes == {"ok", "fails"}

\* get_and_remove_first_ip(): [ret |-> found_ip, file |-> the file afterwards]
get_and_remove_first_ip_keep_all(file, wr) ==
    IF ~file.exists THEN
        [ret |-> NoIp,
         file |-> IF wr = "ok" THEN FileOf(HeaderComment)
                  ELSE IF wr = "write_fails" THEN FileOf(<<>>) ELSE file]
    ELSE
        LET all_lines == readlines(file.data)
            hits == {i \in 1..Len(all_lines) : IsEntry(all_lines[i])}
        IN  IF hits = {} THEN [ret |-> NoIp, file |-> file]
            ELSE LET first == CHOOSE i \in hits : \A j \in hits : i <= j
                 IN  [ret |-> strip(all_lines[first]), file |-> file]

get_and_remove_first_ip_no_create(file, wr) ==
    IF ~file.exists THEN [ret |-> NoIp, file |-> file]
    ELSE
        LET all_lines == readlines(file.data)
            hits == {i \in 1..Len(all_lines) : IsEntry(all_lines[i])}
        IN  IF hits = {} THEN [ret |-> NoIp, file |-> file]
            ELSE LET first == CHOOSE i \in hits : \A j \in hits : i <= j
                 IN  [ret |-> strip(all_lines[first]),
                      file |-> IF wr = "ok"
                               THEN FileOf(Concat(SubSeq(all_lines, first + 1,
                                                         Len(all_lines))))
                               ELSE IF wr = "write_fails" THEN FileOf(<<>>)
                               ELSE file]

get_and_remove_first_ip(file, wr) ==
    IF ~file.exists THEN
        [ret |-> NoIp,
         file |-> IF wr = "ok" THEN FileOf(HeaderComment)
                  ELSE IF wr = "write_fails" THEN FileOf(<<>>) ELSE file]
    ELSE
        LET all_lines == readlines(file.data)
            hits == {i \in 1..Len(all_lines) : IsEntry(all_lines[i])}
        IN  IF hits = {} THEN [ret |-> NoIp, file |-> file]
            ELSE LET first == CHOOSE i \in hits : \A j \in hits : i <= j
                     found_ip == strip(all_lines[first])
                     lines_to_keep == SubSeq(all_lines, first + 1, Len(all_lines))
                 IN  [ret |-> found_ip,
                      file |-> IF wr = "ok" THEN FileOf(Concat(lines_to_keep))
                               ELSE IF wr = "write_fails" THEN FileOf(<<>>)
                               ELSE file]

\* with open(IP_FILENAME, 'a') as f: f.write(f"\n{ip}\n"), IOError swallowed
return_ip_no_newline(file, ip, wr) ==
    IF wr = "ok" THEN FileOf(file.data \o ip \o <<NL>>) ELSE file

return_ip(file, ip, wr) ==
    IF wr = "ok" THEN FileOf(file.data \o <<NL>> \o ip \o <<NL>>) ELSE file

\* the entries of a file, in dispensing order
Entries(file) ==
    LET ls == readlines(file.data)
        F[i \in 0..Len(ls)] ==
            IF i = 0 THEN <<>>
            ELSE IF IsEntry(ls[i]) THEN Append(F[i - 1], strip(ls[i])) ELSE F[i - 1]
    IN  F[Len(ls)]

Count(seq, x) == Cardinality({i \in 1..Len(seq) : seq[i] = x})

----------------------------------------------------------------------------
(* Configuration (config.json) and the stores *)

\* dict.get(key, default)
Get(d, key, default) == IF key \in DOMAIN d THEN d[key] ELSE default

BOOST_REWARD_TIERS ==
    << [name |-> "boost-1", cpu_cores |-> 2, ram_gb |-> 4, disk_gb |-> 64,
        minimum_server_tier_required |-> 2] >>

INVITE_REWARD_TIERS ==
    << [name |-> "invite-1", cpu_cores |-> 1, ram_gb |-> 1, disk_gb |-> 10,
        invites_required |-> 2],
       [name |-> "invite-unpriced", cpu_cores |-> 1, ram_gb |-> 1, disk_gb |-> 10],
       [name |-> "invite-broken"] >>

PAID_PLANS_DATA == << [name |-> "paid-1"] >>

\* guild.premium_tier as Discord reports it
PremiumTiers == 0..3

\* invite_counts.get(str(guild_id), {}).get(str(user_id), 0)
get_user_invite_count(counts, guild_id, user_id) ==
    Get(Get(counts, guild_id, <<>>), user_id, 0)

\* a JSON store file: missing, holding a complete table, or cut short
MissingFile == [kind |-> "missing", data |-> <<>>]
TableFile(t) == [kind |-> "table", data |-> t]
PartialFile == [kind |-> "partial", data |-> <<>>]

\* how load_json_file's creation of a missing file can end: done; open()
\* raises; json.dump raises after open() created the file
CreateOutcomes == {"ok", "open_fails", "dump_fails"}

\* how save_json_file can end: done; writing the .tmp file raises IOError;
\* os.replace raises
SaveOutcomes == {"ok", "tmp_fails", "replace_fails"}

\* load_json_file(filename, {}): [ret |-> the table, file |-> the file afterwards]
load_json_file(file, outcome) ==
    IF file.kind = "missing"
    THEN [ret |-> <<>>,
          file |-> IF outcome = "ok" THEN TableFile(<<>>)
                   ELSE IF outcome = "dump_fails" THEN PartialFile
                   ELSE file]
    ELSE IF file.kind = "table" THEN [ret |-> file.data, file |-> file]
    ELSE [ret |-> <<>>, file |-> file]

\* save_json_file(filename, data): [ret |-> bool, file |-> the target afterwards]
save_json_file_in_place(file, data, outcome) ==
    IF outcome = "ok" THEN [ret |-> TRUE, file |-> TableFile(data)]
    ELSE [ret |-> FALSE, file |-> PartialFile]

save_json_file(file, data, outcome) ==
    IF outcome = "ok" THEN [ret |-> TRUE, file |-> TableFile(data)]
    ELSE [ret |-> FALSE, file |-> file]

\* d[k] = v on a dict
Put(d, k, v) == [x \in DOMAIN d \cup {k} |-> IF x = k THEN v ELSE d[x]]

\* del d[k]
Del(d, k) == [x \in DOMAIN d \ {k} |-> d[x]]

increment_invite_count_by_two(counts, guild_id, user_id) ==
    LET of_guild == Get(counts, guild_id, <<>>)
    IN  Put(counts, guild_id, Put(of_guild, user_id, Get(of_guild, user_id, 0) + 2))

increment_invite_count(counts, guild_id, user_id) ==
    LET of_guild == Get(counts, guild_id, <<>>)
        current_count == Get(of_guild, user_id, 0)
    IN  Put(counts, guild_id, Put(of_guild, user_id, current_count + 1))

\* get_linked_convoy_id(discord_id) on bot.linked_accounts
get_linked_convoy_id(accounts, discord_id) == Get(accounts, discord_id, None)

\* link_user_account(): [accounts, file, saved], saved being "ok" or "failed"
link_user_account_insert_only(accounts, file, discord_id, convoy_user_id, outcome) ==
    LET after == IF discord_id \in DOMAIN accounts THEN accounts
                 ELSE Put(accounts, discord_id, convoy_user_id)
        saved == save_json_file(file, after, outcome)
    IN  [accounts |-> after, file |-> saved.file,
         saved |-> IF saved.ret THEN "ok" ELSE "failed"]

link_user_account(accounts, file, discord_id, convoy_user_id, outcome) ==
    LET after == Put(accounts, discord_id, convoy_user_id)
        saved == save_json_file(file, after, outcome)
    IN  [accounts |-> after, file |-> saved.file,
         saved |-> IF saved.ret THEN "ok" ELSE "failed"]

\* unlink_user_account(): [ret, accounts, file, saved], saved being "none"
\* when the file was not written
unlink_user_account_always_saves(accounts, file, discord_id, outcome) ==
    LET after == Del(accounts, discord_id)
        saved == save_json_file(file, after, outcome)
    IN  [ret |-> discord_id \in DOMAIN accounts, accounts |-> after,
         file |-> saved.file, saved |-> IF saved.ret THEN "ok" ELSE "failed"]

unlink_user_account(accounts, file, discord_id, outcome) ==
    IF discord_id \in DOMAIN accounts
    THEN LET after == Del(accounts, discord_id)
             saved == save_json_file(file, after, outcome)
         IN  [ret |-> TRUE, accounts |-> after, file |-> saved.file,
              saved |-> IF saved.ret THEN "ok" ELSE "failed"]
    ELSE [ret |-> FALSE, accounts |-> accounts, file |-> file, saved |-> "none"]

\* reset_user_invites(): [ret |-> whether an entry was reset, counts |-> after]
reset_user_invites_keep(counts, guild_id, user_id) ==
    [ret |-> guild_id \in DOMAIN counts /\ user_id \in DOMAIN counts[guild_id],
     counts |-> counts]

reset_user_invites(counts, guild_id, user_id) ==
    IF guild_id \in DOMAIN counts /\ user_id \in DOMAIN counts[guild_id]
    THEN [ret |-> TRUE, counts |-> [counts EXCEPT ![guild_id][user_id] = 0]]
    ELSE [ret |-> FALSE, counts |-> counts]

\* the resource fields of server_creation_payload as create_vps builds it:
\* gigabytes times 1024 in main.py, times 1024 * 1024 * 1024 in bot.py.
\* Python's integers are unbounded and 64 * 1024 * 1024 * 1024 is beyond the
\* integers of the model checker, so memory and disk are kept in units of
\* 1024: memory_k stands for the payload's memory / 1024, which is exact
\* for both products.
server_creation_payload(bld, plan_data) ==
    IF bld = "main"
    THEN [cores    |-> plan_data.cpu_cores,
          memory_k |-> plan_data.ram_gb,
          disk_k   |-> plan_data.disk_gb]
    ELSE [cores    |-> plan_data.cpu_cores,
          memory_k |-> plan_data.ram_gb * 1024 * 1024,
          disk_k   |-> plan_data.disk_gb * 1024 * 1024]

\* check_is_vps_creator(interaction): in a guild, a Member, holding the role
check_is_vps_creator(member, user) == member /\ user \in VpsCreators

----------------------------------------------------------------------------
(* create_vps: eligibility *)

DEFAULT_NODE_ID == "node-1"
DEFAULT_TEMPLATE_UUID == "template-1"

\* the two configuration checks of create_vps before the reservation
HasResources(plan_data) ==
    /\ \A k \in {"cpu_cores", "ram_gb", "disk_gb"} : k \in DOMAIN plan_data
    /\ Get(plan_data, "node_id", DEFAULT_NODE_ID) # None
    /\ Get(plan_data, "template_uuid", DEFAULT_TEMPLATE_UUID) # None

\* the boost branch of create_vps: "ok" or the error it sends.  lookup is how
\* the member was found: "cached", "fetched" or "not_found"
BoostCheckNoBoost(bld, enabled, guild, lookup, premium_since, premium_tier, plan_data) ==
    "ok"

BoostCheck(bld, enabled, guild, lookup, premium_since, premium_tier, plan_data) ==
    IF ~enabled THEN "Boost Rewards Disabled"
    ELSE IF guild = None THEN "Context Error"
    ELSE IF lookup = "not_found" THEN "Verification Error"
    ELSE IF ~premium_since THEN "Boost Verification Failed"
    ELSE IF bld = "bot"
            /\ premium_tier < Get(plan_data, "minimum_server_tier_required", 0)
         THEN "Server Boost Level Too Low"
    ELSE "ok"

\* the invite branch of create_vps
InviteCheckAnyCount(enabled, guild, counts, user, plan_data) ==
    IF ~enabled THEN "Invite Rewards Disabled"
    ELSE IF guild = None THEN "Context Error"
    ELSE "ok"

InviteCheck(enabled, guild, counts, user, plan_data) ==
    IF ~enabled THEN "Invite Rewards Disabled"
    ELSE IF guild = None THEN "Context Error"
    ELSE IF get_user_invite_count(counts, guild, user)
                < Get(plan_data, "invites_required", 999)
         THEN "Invite Verification Failed"
    ELSE "ok"

\* the panel's answer as make_api_request hands it to create_vps: None, a dict
\* holding a 'data' dict, another non-empty dict, or a JSON list
ApiResults == {"None", "dict_data", "dict_other", "list"}

\* the test after the creation call: "created", "failed", or "raises" when
\* .get is called on a list
CreationResultAlways(bld, resp) == "created"

CreationResult(bld, resp) ==
    IF resp = "None" THEN "failed"
    ELSE IF bld = "main" THEN (IF resp = "list" THEN "failed" ELSE "created")
    ELSE IF resp = "list" THEN "raises"
    ELSE IF resp = "dict_data" THEN "created"
    ELSE "failed"

\* whether create_vps reaches "assigned_ip_from_file = get_and_remove_first_ip()"
\* with this selection: a plan was chosen, it is not the paid plan, and it
\* carries its resources
ReservesIpAnyPlan(plan_type, plan_data) == plan_type # None

ReservesIpUnlessPaid(plan_type, plan_data) == plan_type # "paid"

ReservesIp(plan_type, plan_data) ==
    /\ plan_type # None
    /\ plan_type # "paid"
    /\ HasResources(plan_data)

\* "if not assigned_ip_from_file:" after the reservation
OutOfIpsNever(assigned_ip) == FALSE

OutOfIps(assigned_ip) == assigned_ip = NoIp

\* the terminal branches of create_vps that append the IP back to ips.txt
BranchReturnsIpAlways(outcome) == TRUE

BranchReturnsIp(outcome) == outcome \in {"CreationFailed", "Denied", "TimedOut"}

\* the sends of create_vps whose discord.HTTPException is caught: the private
\* message (falls back to a follow-up), the alert to the approving admin
\* (pass), the owner's note, and everything sent through send_embed.  The
\* follow-up sent from an except block is not.
CaughtButAdminAlert(site) == site \in {"dm", "owner_dm", "embed"}

Caught(site) == site \in {"dm", "admin_alert", "owner_dm", "embed"}

\* AdminConfirmationView.interaction_check
AdminInteractionCheckOpen(member, user) == TRUE

AdminInteractionCheck(member, user) == check_is_vps_creator(member, user)

\* messages that reach the requester when a Created request reports back:
\* the private message, then the success embed only if it was delivered;
\* else the follow-up
CreatedMessagesOne(dm, fu, se) ==
    IF dm = "ok" \/ fu = "ok" THEN 1 ELSE 0

CreatedMessages(dm, fu, se) ==
    IF dm = "ok" THEN 1 + (IF se = "ok" THEN 1 ELSE 0)
    ELSE IF fu = "ok" THEN 1 ELSE 0

\* the branch create_vps takes on admin_conf_view.status after wait()
DecisionBranchNotDenied(status) ==
    IF status = "False" THEN "denied" ELSE "approved"

DecisionBranch(status) ==
    IF status = "True" THEN "approved"
    ELSE IF status = "False" THEN "denied"
    ELSE "timeout"

----------------------------------------------------------------------------
(* State at start *)

Req0 == [pc |-> "idle", user |-> None, guild |-> None, plan_type |-> None,
         plan_data |-> <<>>, assigned_ip |-> NoIp]

PlanView0 == [selected_plan_type |-> None, selected_plan_data |-> <<>>,
              finished |-> FALSE, boost_offered |-> FALSE,
              invite_offered |-> FALSE]

AdminView0 == [sent |-> FALSE, status |-> "None", response_admin |-> None,
               finished |-> FALSE, in_callback |-> 0, clicks |-> 0]

Obs0 == [outcome |-> None, reason |-> None, raised |-> FALSE,
         pool_before |-> NoFile, dispensed |-> FALSE, write |-> "ok",
         appends |-> 0, append_tries |-> 0,
         msgs |-> 0, admin_alert |-> "none", api_calls |-> 0,
         approve_pressed |-> FALSE, refused_clicks |-> 0,
         dm |-> "none", followup |-> "none", embed |-> "none",
         notice |-> FALSE, last_click_creator |-> "none",
         boosting |-> FALSE, tier_met |-> FALSE, invites_at_check |-> 0,
         payload |-> <<>>, first_status |-> "None", first_admin |-> None]

\* the direct calls on the pool: the last one, the IPs handed out and not yet
\* appended back, and, when followed, the file at start and the calls so far
Pool0 == [ops |-> 0, kind |-> "none", before |-> NoFile, ret |-> NoIp,
          wr |-> "ok", held |-> <<>>, limit |-> MaxPoolOps,
          followed |-> FALSE, start |-> NoFile, calls |-> <<>>]

\* joins and link calls so far, and how far a run goes: clicks per view, link
\* calls, which invite lists a join may fetch, and whether the calls are kept
Env0 == [joined |-> {}, link_ops |-> 0, click_limit |-> MaxClicks,
         link_limit |-> MaxLinkOps, loaded |-> TRUE, fetches |-> "few",
         kept |-> FALSE, saves |-> {"ok"}, calls |-> <<>>, join |-> <<>>,
         invites |-> <<>>, handlers |-> <<>>, refresh |-> <<>>,
         joins_via |-> <<>>, fetch_failed |-> FALSE, counts_at_start |-> <<>>,
         admin_create |-> <<>>, first_kept |-> FALSE]

\* bot.http_session, and the arguments and result of the last call
Api0 == [session |-> "open", calls |-> 0, args |-> <<>>, result |-> <<>>]

\* ips.txt when a workflow run starts
WorkflowFiles ==
    { NoFile,
      FileOf(<<>>),
      FileOf(<<"#", NL, "A", NL>>),
      FileOf(<<"A", NL, "B">>) }

\* invite_counts.json at start: no entry, or u1 with a count
InitCounts ==
    { <<>> } \cup { [g \in Guilds |-> [u \in {"u1"} |-> n]] : n \in 0..MaxCount }

InitLinks == { <<>>, [u \in {"u1", "a1"} |-> "7"] }

InitCommon ==
    /\ build \in {"main", "bot"}
    /\ invite_counts \in InitCounts
    /\ BOOST_REWARDS_ENABLED = TRUE
    /\ INVITE_REWARDS_ENABLED_GLOBAL = TRUE
    /\ linked_accounts \in InitLinks
    /\ req = [r \in Reqs |-> Req0]
    /\ plan_view = [r \in Reqs |-> PlanView0]
    /\ admin_view = [r \in Reqs |-> AdminView0]
    /\ obs = [r \in Reqs |-> Obs0]
    /\ pool = Pool0
    /\ guild_invite_cache = <<>>
    /\ store_files = [links |-> TableFile(linked_accounts),
                      invites |-> TableFile(invite_counts)]
    /\ api = Api0

Init ==
    /\ InitCommon
    /\ env = Env0
    /\ ipfile \in WorkflowFiles

Finish(r, outcome, reason, raised) ==
    [obs[r] EXCEPT !.outcome = outcome, !.reason = reason, !.raised = raised]

----------------------------------------------------------------------------
(* /create: from the command to the plan menu *)

\* create_vps up to "await view.wait()" on the PlanSelectView
Invoke(r) ==
    /\ req[r].pc = "idle"
    /\ \E u \in {"u1", "a1"}, g \in {None} \cup Guilds, menu_sent \in BOOLEAN :
        LET redirected == build = "main" /\ check_is_vps_creator(g # None, u)
            user_panel_id == Get(linked_accounts, u, None)
            stop == redirected \/ user_panel_id = None \/ ~menu_sent
        IN  /\ req' = [req EXCEPT ![r].user = u, ![r].guild = g,
                                   ![r].pc = IF stop THEN "done" ELSE "plan_wait"]
            /\ plan_view' =
                 IF stop THEN plan_view
                 ELSE [plan_view EXCEPT
                         ![r].boost_offered =
                             BOOST_REWARDS_ENABLED /\ BOOST_REWARD_TIERS # <<>>,
                         ![r].invite_offered =
                             INVITE_REWARDS_ENABLED_GLOBAL /\ INVITE_REWARD_TIERS # <<>>]
            /\ obs' = IF redirected THEN [obs EXCEPT ![r] = Finish(r, "AdminRedirect", None, FALSE)]
                      ELSE IF user_panel_id = None
                           THEN [obs EXCEPT ![r] = Finish(r, "NotLinked", None, FALSE)]
                      ELSE IF ~menu_sent
                           THEN [obs EXCEPT ![r] = Finish(r, "NoMenu", None, FALSE)]
                      ELSE obs
    /\ UNCHANGED <<build, ipfile, invite_counts, BOOST_REWARDS_ENABLED,
                   INVITE_REWARDS_ENABLED_GLOBAL, admin_view, linked_accounts, pool,
                   guild_invite_cache, env, store_files, api>>

\* PlanSelectView.select_callback with a value the menu offers
PlanSelect(r) ==
    /\ req[r].pc = "plan_wait"
    /\ ~plan_view[r].finished
    /\ \E category \in {"boost", "invite"} :
        LET tiers == IF category = "boost" THEN BOOST_REWARD_TIERS
                     ELSE INVITE_REWARD_TIERS
        IN  /\ IF category = "boost" THEN plan_view[r].boost_offered
                ELSE plan_view[r].invite_offered
            /\ \E plan_index \in 1..Len(tiers) :
                 plan_view' = [plan_view EXCEPT
                     ![r].selected_plan_type = category,
                     ![r].selected_plan_data = tiers[plan_index],
                     ![r].finished = TRUE]
    /\ UNCHANGED <<build, ipfile, invite_counts, BOOST_REWARDS_ENABLED,
                   INVITE_REWARDS_ENABLED_GLOBAL, req, admin_view, obs,
                   linked_accounts, pool,
                   guild_invite_cache, env, store_files, api>>

\* PlanSelectView.button_callback: the paid-plan button
PlanPaid(r) ==
    /\ req[r].pc = "plan_wait"
    /\ ~plan_view[r].finished
    /\ PAID_PLANS_DATA # <<>>
    /\ plan_view' = [plan_view EXCEPT
            ![r].selected_plan_type = "paid",
            ![r].selected_plan_data = [name |-> "Paid Plan Request"],
            ![r].finished = TRUE]
    /\ UNCHANGED <<build, ipfile, invite_counts, BOOST_REWARDS_ENABLED,
                   INVITE_REWARDS_ENABLED_GLOBAL, req, admin_view, obs,
                   linked_accounts, pool,
                   guild_invite_cache, env, store_files, api>>

\* PlanSelectView times out (180 s) with nothing selected
PlanTimeout(r) ==
    /\ req[r].pc = "plan_wait"
    /\ ~plan_view[r].finished
    /\ plan_view' = [plan_view EXCEPT ![r].finished = TRUE]
    /\ UNCHANGED <<build, ipfile, invite_counts, BOOST_REWARDS_ENABLED,
                   INVITE_REWARDS_ENABLED_GLOBAL, req, admin_view, obs,
                   linked_accounts, pool,
                   guild_invite_cache, env, store_files, api>>

\* create_vps from the return of view.wait() to the next await that matters:
\* the paid branch, the plan checks, the IP reservation, the boost or invite
\* verification, and the "submitted for approval" notice
AfterPlanWait(r) ==
    /\ req[r].pc = "plan_wait"
    /\ plan_view[r].finished
    /\ \E wr \in IF ReservesIp(plan_view[r].selected_plan_type,
                               plan_view[r].selected_plan_data)
                 THEN WriteOutcomes ELSE {"ok"},
          lookup \in IF plan_view[r].selected_plan_type = "boost"
                     THEN {"cached", "not_found"} ELSE {"cached"},
          premium_since \in IF plan_view[r].selected_plan_type = "boost"
                            THEN BOOLEAN ELSE {FALSE},
          premium_tier \in IF plan_view[r].selected_plan_type = "boost"
                           THEN PremiumTiers ELSE {0},
          owner \in IF plan_view[r].selected_plan_type = "paid"
                    THEN {"ok", "raises"} ELSE {"ok"} :
        LET plan_type == plan_view[r].selected_plan_type
            plan_data == plan_view[r].selected_plan_data
            reserve   == ReservesIp(plan_type, plan_data)
            got       == IF reserve THEN get_and_remove_first_ip(ipfile, wr)
                         ELSE [ret |-> NoIp, file |-> ipfile]
            verdict   == IF plan_type = "boost"
                         THEN BoostCheck(build, BOOST_REWARDS_ENABLED, req[r].guild,
                                         lookup, premium_since, premium_tier, plan_data)
                         ELSE IF plan_type = "invite"
                         THEN InviteCheck(INVITE_REWARDS_ENABLED_GLOBAL, req[r].guild,
                                          invite_counts, req[r].user, plan_data)
                         ELSE "ok"
            outcome   == IF plan_type = None THEN "NoPlan"
                         ELSE IF plan_type = "paid" THEN "Paid"
                         ELSE IF ~HasResources(plan_data) THEN "ConfigError"
                         ELSE IF OutOfIps(got.ret) THEN "NoIp"
                         ELSE IF verdict # "ok" THEN "Ineligible"
                         ELSE None
            o1        == [obs[r] EXCEPT
                            !.pool_before = IF reserve THEN ipfile ELSE @,
                            !.dispensed = reserve,
                            !.boosting = /\ plan_type = "boost"
                                         /\ req[r].guild # None
                                         /\ lookup # "not_found"
                                         /\ premium_since,
                            !.tier_met = /\ plan_type = "boost"
                                         /\ premium_tier >=
                                              Get(plan_data,
                                                  "minimum_server_tier_required", 0),
                            !.invites_at_check =
                                IF plan_type = "invite"
                                THEN get_user_invite_count(invite_counts,
                                         req[r].guild, req[r].user)
                                ELSE 0,
                            !.payload =
                                IF outcome = None
                                THEN server_creation_payload(build, plan_data)
                                ELSE @,
                            !.write = IF reserve THEN wr ELSE @]
        IN  /\ ipfile' = got.file
            /\ req' = [req EXCEPT ![r].plan_type = plan_type,
                                   ![r].plan_data = plan_data,
                                   ![r].assigned_ip = got.ret,
                                   ![r].pc = IF outcome = None THEN "submitted"
                                             ELSE "done"]
            /\ obs' = [obs EXCEPT ![r] =
                         IF outcome = None THEN o1
                         ELSE [o1 EXCEPT
                                 !.outcome = outcome,
                                 !.reason = IF outcome = "Ineligible" THEN verdict
                                            ELSE IF outcome = "NoIp"
                                            THEN "Resource Error"
                                            ELSE None,
                                 !.raised = outcome = "Paid" /\ owner = "raises",
                                 !.notice = outcome = "Paid" /\ owner = "ok"]]
    /\ UNCHANGED <<build, invite_counts, BOOST_REWARDS_ENABLED,
                   INVITE_REWARDS_ENABLED_GLOBAL, plan_view, admin_view,
                   linked_accounts, pool,
                   guild_invite_cache, env, store_files, api>>

\* create_vps posts the approval request; when it cannot, it tells the
\* requester with a follow-up and appends the IP back
PostApprovalRequest(r) ==
    /\ req[r].pc = "submitted"
    /\ \E channel \in {"ok", "unset", "invalid", "send_fails"} :
       \E fu \in IF channel = "ok" THEN {"ok"} ELSE {"ok", "fail"} :
       \E wr \in IF channel = "ok" \/ fu = "fail" THEN {"ok"} ELSE AppendOutcomes :
        IF channel = "ok"
        THEN /\ admin_view' = [admin_view EXCEPT ![r].sent = TRUE]
             /\ req' = [req EXCEPT ![r].pc = "await_admin"]
             /\ UNCHANGED <<ipfile, obs>>
        ELSE LET raised == fu = "fail" /\ ~Caught("followup")
             IN  /\ req' = [req EXCEPT ![r].pc = "done"]
                 /\ ipfile' = IF raised THEN ipfile
                              ELSE return_ip(ipfile, req[r].assigned_ip, wr)
                 /\ obs' = [obs EXCEPT ![r] =
                        [Finish(r, "NoChannel", channel, raised) EXCEPT
                           !.followup = fu,
                           !.append_tries = IF raised THEN @ ELSE @ + 1,
                           !.appends = IF ~raised /\ wr = "ok" THEN @ + 1 ELSE @]]
                 /\ UNCHANGED admin_view
    /\ UNCHANGED <<build, invite_counts, BOOST_REWARDS_ENABLED,
                   INVITE_REWARDS_ENABLED_GLOBAL, plan_view, linked_accounts, pool,
                   guild_invite_cache, env, store_files, api>>

----------------------------------------------------------------------------
(* AdminConfirmationView *)

\* a click on Approve or Deny, up to the await of edit_message inside
\* _update_view_on_action.  A finished view dispatches nothing.
AdminClick(r) ==
    /\ admin_view[r].sent
    /\ ~admin_view[r].finished
    /\ admin_view[r].clicks < env.click_limit
    /\ \E user \in Users, member \in BOOLEAN, approved \in BOOLEAN :
        IF AdminInteractionCheck(member, user)
        THEN /\ admin_view' = [admin_view EXCEPT
                    ![r].status = IF approved THEN "True" ELSE "False",
                    ![r].response_admin = user,
                    ![r].in_callback = @ + 1,
                    ![r].clicks = @ + 1]
             /\ obs' = [obs EXCEPT
                    ![r].approve_pressed =
                        @ \/ (approved /\ check_is_vps_creator(member, user)),
                    ![r].last_click_creator =
                        IF check_is_vps_creator(member, user) THEN "yes" ELSE "no",
                    ![r].first_status =
                        IF env.first_kept /\ obs[r].first_status = "None"
                        THEN (IF approved THEN "True" ELSE "False") ELSE @,
                    ![r].first_admin =
                        IF env.first_kept /\ obs[r].first_status = "None"
                        THEN user ELSE @]
        ELSE /\ admin_view' = [admin_view EXCEPT ![r].clicks = @ + 1]
             /\ obs' = [obs EXCEPT
                    ![r].refused_clicks = @ + 1,
                    ![r].last_click_creator =
                        IF check_is_vps_creator(member, user) THEN "yes" ELSE "no"]
    /\ UNCHANGED <<build, ipfile, invite_counts, BOOST_REWARDS_ENABLED,
                   INVITE_REWARDS_ENABLED_GLOBAL, req, plan_view,
                   linked_accounts, pool,
                   guild_invite_cache, env, store_files, api>>

\* _update_view_on_action resumes: edit_message returned and stop() runs, or
\* edit_message raised and the callback ends without stop()
AdminCallbackResume(r) ==
    /\ admin_view[r].in_callback > 0
    /\ \E edited \in BOOLEAN :
        admin_view' = [admin_view EXCEPT
            ![r].in_callback = @ - 1,
            ![r].finished = @ \/ edited]
    /\ UNCHANGED <<build, ipfile, invite_counts, BOOST_REWARDS_ENABLED,
                   INVITE_REWARDS_ENABLED_GLOBAL, req, plan_view, obs,
                   linked_accounts, pool,
                   guild_invite_cache, env, store_files, api>>

\* the view's timeout (7200 s, restarted by every dispatched click, so it
\* cannot fire while a callback awaits its edit) ends the wait
AdminTimeout(r) ==
    /\ admin_view[r].sent
    /\ ~admin_view[r].finished
    /\ admin_view[r].in_callback = 0
    /\ admin_view' = [admin_view EXCEPT ![r].finished = TRUE]
    /\ UNCHANGED <<build, ipfile, invite_counts, BOOST_REWARDS_ENABLED,
                   INVITE_REWARDS_ENABLED_GLOBAL, req, plan_view, obs,
                   linked_accounts, pool,
                   guild_invite_cache, env, store_files, api>>

----------------------------------------------------------------------------
(* create_vps after the approval wait *)

\* the Denied and TimedOut branches, and the step of the Approved branch that
\* issues POST /servers
ProcessDecision(r) ==
    /\ req[r].pc = "await_admin"
    /\ admin_view[r].finished
    /\ LET branch == DecisionBranch(admin_view[r].status)
       IN  IF branch = "approved"
           THEN /\ req' = [req EXCEPT ![r].pc = "creating"]
                /\ obs' = [obs EXCEPT ![r].api_calls = @ + 1]
                /\ UNCHANGED ipfile
           ELSE \E dm \in {"ok", "fail"} :
                \E fu \in IF dm = "ok" THEN {"ok"} ELSE {"ok", "fail"} :
                \E wr \in AppendOutcomes :
                LET outcome  == IF branch = "denied" THEN "Denied" ELSE "TimedOut"
                    raised   == dm = "fail" /\ fu = "fail" /\ ~Caught("followup")
                    appended == BranchReturnsIp(outcome) /\ ~raised
                IN  /\ req' = [req EXCEPT ![r].pc = "done"]
                    /\ ipfile' = IF appended
                                 THEN return_ip(ipfile, req[r].assigned_ip, wr)
                                 ELSE ipfile
                    /\ obs' = [obs EXCEPT ![r] =
                          [Finish(r, outcome, None, raised) EXCEPT
                             !.dm = dm,
                             !.followup = IF dm = "fail" THEN fu ELSE "none",
                             !.msgs = IF dm = "ok" \/ fu = "ok" THEN 1 ELSE 0,
                             !.append_tries = IF appended THEN @ + 1 ELSE @,
                             !.appends = IF appended /\ wr = "ok" THEN @ + 1 ELSE @]]
    /\ UNCHANGED <<build, invite_counts, BOOST_REWARDS_ENABLED,
                   INVITE_REWARDS_ENABLED_GLOBAL, plan_view, admin_view,
                   linked_accounts, pool,
                   guild_invite_cache, env, store_files, api>>

\* make_api_request('POST', '/servers', ...) returns: the Created and the
\* CreationFailed branches
CreateReturn(r) ==
    /\ req[r].pc = "creating"
    /\ \E resp \in ApiResults :
       \E dm \in IF CreationResult(build, resp) = "created"
                 THEN {"ok", "fail"} ELSE {"ok"} :
       \E fu \in IF dm = "fail" THEN {"ok", "fail"} ELSE {"ok"} :
       \E se \in IF CreationResult(build, resp) = "failed"
                    \/ (CreationResult(build, resp) = "created" /\ dm = "ok")
                 THEN {"ok", "fail"} ELSE {"ok"} :
       \E alert \in IF CreationResult(build, resp) = "failed"
                    THEN {"ok", "fail"} ELSE {"ok"} :
       \E wr \in IF CreationResult(build, resp) = "raises"
                 THEN {"ok"} ELSE AppendOutcomes :
       \E sv \in IF CreationResult(build, resp) = "created"
                    /\ req[r].plan_type = "invite"
                 THEN env.saves ELSE {"ok"} :
        LET result == CreationResult(build, resp)
        IN  /\ req' = [req EXCEPT ![r].pc = "done"]
            /\ IF result = "created"
               THEN LET raised   == dm = "fail" /\ fu = "fail" /\ ~Caught("followup")
                        appended == BranchReturnsIp("Created") /\ ~raised
                        redeem   == req[r].plan_type = "invite" /\ req[r].guild # None
                        reset    == reset_user_invites(invite_counts, req[r].guild,
                                                       req[r].user)
                    IN  /\ invite_counts' = IF redeem THEN reset.counts
                                            ELSE invite_counts
                        /\ store_files' =
                             IF redeem /\ reset.ret
                             THEN [store_files EXCEPT
                                     !.invites = save_json_file(@, reset.counts, sv).file]
                             ELSE store_files
                        /\ ipfile' = IF appended
                                     THEN return_ip(ipfile, req[r].assigned_ip, wr)
                                     ELSE ipfile
                        /\ obs' = [obs EXCEPT ![r] =
                              [Finish(r, "Created", resp, raised) EXCEPT
                                 !.dm = dm,
                                 !.followup = IF dm = "fail" THEN fu ELSE "none",
                                 !.embed = IF dm = "ok" THEN se ELSE "none",
                                 !.msgs = CreatedMessages(dm, fu, se),
                                 !.append_tries = IF appended THEN @ + 1 ELSE @,
                                 !.appends = IF appended /\ wr = "ok" THEN @ + 1 ELSE @]]
               ELSE IF result = "failed"
               THEN LET alerted  == admin_view[r].response_admin # None
                        raised   == alerted /\ alert = "fail" /\ ~Caught("admin_alert")
                        appended == BranchReturnsIp("CreationFailed") /\ ~raised
                    IN  /\ ipfile' = IF appended
                                     THEN return_ip(ipfile, req[r].assigned_ip, wr)
                                     ELSE ipfile
                        /\ obs' = [obs EXCEPT ![r] =
                              [Finish(r, "CreationFailed", resp, raised) EXCEPT
                                 !.embed = se,
                                 !.msgs = IF se = "ok" THEN 1 ELSE 0,
                                 !.admin_alert = IF ~alerted THEN "none"
                                                 ELSE IF alert = "ok" THEN "sent"
                                                 ELSE "failed",
                                 !.append_tries = IF appended THEN @ + 1 ELSE @,
                                 !.appends = IF appended /\ wr = "ok" THEN @ + 1 ELSE @]]
                        /\ UNCHANGED <<invite_counts, store_files>>
               ELSE /\ obs' = [obs EXCEPT ![r] = Finish(r, "Crashed", resp, TRUE)]
                    /\ UNCHANGED <<ipfile, invite_counts, store_files>>
    /\ UNCHANGED <<build, BOOST_REWARDS_ENABLED, INVITE_REWARDS_ENABLED_GLOBAL,
                   plan_view, admin_view, linked_accounts, pool,
                   guild_invite_cache, env, api>>

----------------------------------------------------------------------------
(* Owner commands of bot.py *)

\* /toggleboostrewards and /toggleinviterewards: the global changes only when
\* config.json was saved
ToggleRewards ==
    /\ build = "bot"
    /\ \E which \in {"boost", "invite"}, enable \in BOOLEAN, saved \in BOOLEAN :
        /\ BOOST_REWARDS_ENABLED' =
              IF which = "boost" /\ saved THEN enable ELSE BOOST_REWARDS_ENABLED
        /\ INVITE_REWARDS_ENABLED_GLOBAL' =
              IF which = "invite" /\ saved THEN enable
              ELSE INVITE_REWARDS_ENABLED_GLOBAL
    /\ UNCHANGED <<build, ipfile, invite_counts, req, plan_view, admin_view, obs,
                   linked_accounts, pool,
                   guild_invite_cache, env, store_files, api>>

----------------------------------------------------------------------------
(* on_member_join and the link store *)

\* the loop of on_member_join over the fetched invites: the inviter of the
\* only invite that is new or used more often than cached, None when there
\* is none or more than one
RECURSIVE scan_invites(_, _, _)
scan_invites(invites, cached, found) ==
    IF invites = <<>> THEN found
    ELSE LET inv == Head(invites)
         IN  IF inv.inviter = None THEN scan_invites(Tail(invites), cached, found)
             ELSE IF inv.code \notin DOMAIN cached \/ inv.uses > Get(cached, inv.code, -1)
             THEN IF found = None
                  THEN scan_invites(Tail(invites), cached, inv.inviter)
                  ELSE None
             ELSE scan_invites(Tail(invites), cached, found)

found_inviter_user(invites, cached) == scan_invites(invites, cached, None)

\* {inv.code: inv.uses for inv in current_guild_invites}
uses_by_code(invites) ==
    [c \in {invites[i].code : i \in 1..Len(invites)} |->
        invites[CHOOSE i \in 1..Len(invites) :
                  /\ invites[i].code = c
                  /\ \A j \in 1..Len(invites) : invites[j].code = c => j <= i].uses]

\* what guild.invites() returns to a join handler of a run of the workflow
FetchedInvites ==
    { <<>>,
      << [code |-> "c1", uses |-> 1, inviter |-> "u1"] >>,
      << [code |-> "c1", uses |-> 1, inviter |-> "u1"],
         [code |-> "c2", uses |-> 1, inviter |-> "a1"] >>,
      << [code |-> "c1", uses |-> 1, inviter |-> "m1"] >>,
      << [code |-> "c1", uses |-> 1, inviter |-> None] >> }

\* every list of at most one invite per code that a join may fetch when the
\* handler is driven alone
AllFetchedInvites ==
    LET first  == { [code |-> "c1", uses |-> n, inviter |-> i] :
                      n \in 0..MaxUses, i \in {"u1", "m1", None} }
        second == { [code |-> "c2", uses |-> n, inviter |-> i] :
                      n \in 0..MaxUses, i \in {"a1", None} }
    IN  { <<>> } \cup { <<a>> : a \in first \cup second }
                 \cup { <<a, b>> : a \in first, b \in second }
                 \cup { <<b, a>> : a \in first, b \in second }

\* "if found_inviter_user and found_inviter_user.id != member.id"
credited_any(found, member) == found # None

credited(found, member) == found # None /\ found # member

\* on_member_join(member), from the join to the cache update
MemberJoin ==
    /\ env.loaded
    /\ \E m \in Joiners \ env.joined, g \in Guilds, is_bot \in BOOLEAN :
       \E fetch \in IF is_bot THEN {"ok"} ELSE {"ok", "fails"} :
       \E invites \in IF is_bot \/ fetch = "fails" THEN {<<>>}
                      ELSE IF env.fetches = "few" THEN FetchedInvites
                      ELSE AllFetchedInvites :
        LET cached == Get(guild_invite_cache, g, <<>>)
            found  == found_inviter_user(invites, cached)
            ran    == ~is_bot /\ fetch = "ok"
            counts == ran /\ credited(found, m)
        IN  \E sv \in IF counts THEN env.saves ELSE {"ok"} :
            /\ env' = [env EXCEPT
                         !.joined = @ \cup {m},
                         !.join = IF env.kept
                                  THEN [member |-> m, guild |-> g,
                                        invites |-> invites,
                                        cached |-> cached, ran |-> ran]
                                  ELSE @]
            /\ invite_counts' =
                 IF counts THEN increment_invite_count(invite_counts, g, found)
                 ELSE invite_counts
            /\ store_files' =
                 IF counts
                 THEN [store_files EXCEPT
                         !.invites = save_json_file(@, invite_counts', sv).file]
                 ELSE store_files
            /\ guild_invite_cache' =
                 IF ran THEN Put(guild_invite_cache, g, uses_by_code(invites))
                 ELSE guild_invite_cache
            /\ UNCHANGED <<build, ipfile, BOOST_REWARDS_ENABLED,
                           INVITE_REWARDS_ENABLED_GLOBAL, req, plan_view,
                           admin_view, obs, linked_accounts, pool, api>>

\* setup_hook: both tables are loaded with load_json_file
LoadStores ==
    /\ ~env.loaded
    /\ \E c1 \in IF store_files.links.kind = "missing"
                 THEN CreateOutcomes ELSE {"ok"},
          c2 \in IF store_files.invites.kind = "missing"
                 THEN CreateOutcomes ELSE {"ok"} :
        LET links   == load_json_file(store_files.links, c1)
            invites == load_json_file(store_files.invites, c2)
        IN  /\ linked_accounts' = links.ret
            /\ invite_counts' = invites.ret
            /\ store_files' = [links |-> links.file, invites |-> invites.file]
    /\ env' = [env EXCEPT !.loaded = TRUE]
    /\ UNCHANGED <<build, ipfile, BOOST_REWARDS_ENABLED,
                   INVITE_REWARDS_ENABLED_GLOBAL, req, plan_view, admin_view,
                   obs, pool, guild_invite_cache, api>>

\* link_user_account(discord_id, convoy_user_id)
LinkAccount ==
    /\ env.loaded
    /\ env.link_ops < env.link_limit
    /\ \E discord_id \in {"u1"}, convoy_user_id \in PanelIds, sv \in env.saves :
        LET done == link_user_account(linked_accounts, store_files.links,
                                      discord_id, convoy_user_id, sv)
        IN  /\ linked_accounts' = done.accounts
            /\ store_files' = [store_files EXCEPT !.links = done.file]
            /\ env' = [env EXCEPT
                         !.link_ops = @ + 1,
                         !.calls = IF env.kept
                                   THEN Append(@, [op |-> "link", user |-> discord_id,
                                                   arg |-> convoy_user_id,
                                                   ret |-> None,
                                                   saved |-> done.saved])
                                   ELSE @]
    /\ UNCHANGED <<build, ipfile, invite_counts, BOOST_REWARDS_ENABLED,
                   INVITE_REWARDS_ENABLED_GLOBAL, req, plan_view, admin_view,
                   obs, pool, guild_invite_cache, api>>

\* unlink_user_account(discord_id)
UnlinkAccount ==
    /\ env.loaded
    /\ env.link_ops < env.link_limit
    /\ \E discord_id \in {"u1"} :
       \E sv \in IF discord_id \in DOMAIN linked_accounts
                 THEN env.saves ELSE {"ok"} :
        LET done == unlink_user_account(linked_accounts, store_files.links,
                                        discord_id, sv)
        IN  /\ linked_accounts' = done.accounts
            /\ store_files' = [store_files EXCEPT !.links = done.file]
            /\ env' = [env EXCEPT
                         !.link_ops = @ + 1,
                         !.calls = IF env.kept
                                   THEN Append(@, [op |-> "unlink", user |-> discord_id,
                                                   arg |-> None,
                                                   ret |-> done.ret,
                                                   saved |-> done.saved])
                                   ELSE @]
    /\ UNCHANGED <<build, ipfile, invite_counts, BOOST_REWARDS_ENABLED,
                   INVITE_REWARDS_ENABLED_GLOBAL, req, plan_view, admin_view,
                   obs, pool, guild_invite_cache, api>>

----------------------------------------------------------------------------

Next ==
    \/ \E r \in DOMAIN req : Invoke(r)
    \/ \E r \in DOMAIN req : PlanSelect(r)
    \/ \E r \in DOMAIN req : PlanPaid(r)
    \/ \E r \in DOMAIN req : PlanTimeout(r)
    \/ \E r \in DOMAIN req : AfterPlanWait(r)
    \/ \E r \in DOMAIN req : PostApprovalRequest(r)
    \/ \E r \in DOMAIN req : AdminClick(r)
    \/ \E r \in DOMAIN req : AdminCallbackResume(r)
    \/ \E r \in DOMAIN req : AdminTimeout(r)
    \/ \E r \in DOMAIN req : ProcessDecision(r)
    \/ \E r \in DOMAIN req : CreateReturn(r)
    \/ ToggleRewards

Spec == Init /\ [][Next]_vars

\* the workflow together with joins and the link commands, from a pool of
\* two IPs and a linked requester
InitStores ==
    /\ InitCommon
    /\ env = [Env0 EXCEPT !.click_limit = MaxStoreClicks]
    /\ ipfile = FileOf(<<"A", NL, "B">>)
    /\ linked_accounts = [u \in {"u1", "a1"} |-> "7"]

NextStores ==
    \/ \E r \in DOMAIN req : Invoke(r)
    \/ \E r \in DOMAIN req : PlanSelect(r)
    \/ \E r \in DOMAIN req : PlanPaid(r)
    \/ \E r \in DOMAIN req : PlanTimeout(r)
    \/ \E r \in DOMAIN req : AfterPlanWait(r)
    \/ \E r \in DOMAIN req : PostApprovalRequest(r)
    \/ \E r \in DOMAIN req : AdminClick(r)
    \/ \E r \in DOMAIN req : AdminCallbackResume(r)
    \/ \E r \in DOMAIN req : AdminTimeout(r)
    \/ \E r \in DOMAIN req : ProcessDecision(r)
    \/ \E r \in DOMAIN req : CreateReturn(r)
    \/ MemberJoin
    \/ LinkAccount
    \/ UnlinkAccount

SpecStores == InitStores /\ [][NextStores]_vars

----------------------------------------------------------------------------
(* The pool file driven alone: calls of get_and_remove_first_ip and appends *)
(* of IPs it handed out, on every small file                               *)

PoolLineTexts ==
    { <<"A">>, <<"B">>, <<"C">>, <<" ", "B", " ">>, <<"#", "A">>, <<" ", "#">>,
      <<>> }

RECURSIVE JoinLines(_)
JoinLines(ls) ==
    IF ls = <<>> THEN <<>>
    ELSE IF Len(ls) = 1 THEN Head(ls)
    ELSE Head(ls) \o <<NL>> \o JoinLines(Tail(ls))

\* every file of at most n lines, with or without a final newline
FilesOfLines(texts, n) ==
    LET bodies == UNION { { JoinLines(ls) : ls \in [1..k -> texts] } : k \in 1..n }
    IN  { FileOf(<<>>) } \cup { FileOf(b) : b \in bodies }
                       \cup { FileOf(b \o <<NL>>) : b \in bodies }

InitPool ==
    /\ build \in {"main", "bot"}
    /\ invite_counts = <<>>
    /\ BOOST_REWARDS_ENABLED = TRUE
    /\ INVITE_REWARDS_ENABLED_GLOBAL = TRUE
    /\ linked_accounts = <<>>
    /\ req = [r \in Reqs |-> Req0]
    /\ plan_view = [r \in Reqs |-> PlanView0]
    /\ admin_view = [r \in Reqs |-> AdminView0]
    /\ obs = [r \in Reqs |-> Obs0]
    /\ pool = Pool0
    /\ guild_invite_cache = <<>>
    /\ env = Env0
    /\ store_files = [links |-> TableFile(<<>>), invites |-> TableFile(<<>>)]
    /\ api = Api0
    /\ ipfile \in {NoFile} \cup FilesOfLines(PoolLineTexts, MaxPoolLines)

PoolDispense ==
    /\ pool.ops < pool.limit
    /\ \E wr \in WriteOutcomes :
        LET got == get_and_remove_first_ip(ipfile, wr)
        IN  /\ ipfile' = got.file
            /\ pool' = [pool EXCEPT
                          !.ops = @ + 1, !.kind = "dispense",
                          !.before = ipfile, !.ret = got.ret, !.wr = wr,
                          !.held = IF got.ret = NoIp THEN @ ELSE Append(@, got.ret),
                          !.calls = IF pool.followed
                                    THEN Append(@, [kind |-> "dispense",
                                                    ret |-> got.ret, wr |-> wr])
                                    ELSE @]
    /\ UNCHANGED <<build, invite_counts, BOOST_REWARDS_ENABLED,
                   INVITE_REWARDS_ENABLED_GLOBAL, req, plan_view, admin_view,
                   obs, linked_accounts,
                   guild_invite_cache, env, store_files, api>>

PoolReturn ==
    /\ pool.ops < pool.limit
    /\ pool.held # <<>>
    /\ \E i \in 1..Len(pool.held), wr \in AppendOutcomes :
        LET w == IF wr = "ok" THEN "ok" ELSE "open_fails"
        IN  /\ ipfile' = return_ip(ipfile, pool.held[i], wr)
            /\ pool' = [pool EXCEPT
                          !.ops = @ + 1, !.kind = "return",
                          !.before = ipfile, !.ret = pool.held[i], !.wr = w,
                          !.held = SubSeq(@, 1, i - 1) \o SubSeq(@, i + 1, Len(@)),
                          !.calls = IF pool.followed
                                    THEN Append(@, [kind |-> "return",
                                                    ret |-> pool.held[i], wr |-> w])
                                    ELSE @]
    /\ UNCHANGED <<build, invite_counts, BOOST_REWARDS_ENABLED,
                   INVITE_REWARDS_ENABLED_GLOBAL, req, plan_view, admin_view,
                   obs, linked_accounts,
                   guild_invite_cache, env, store_files, api>>

NextPool == PoolDispense \/ PoolReturn

SpecPool == InitPool /\ [][NextPool]_vars

OrderLineTexts == { <<"A">>, <<"B">>, <<" ", "B", " ">>, <<"#", "A">>, <<>> }

\* the same calls on the files of a few lines, with the file at start and the
\* calls made so far kept
InitOrder ==
    /\ build \in {"main", "bot"}
    /\ invite_counts = <<>>
    /\ BOOST_REWARDS_ENABLED = TRUE
    /\ INVITE_REWARDS_ENABLED_GLOBAL = TRUE
    /\ linked_accounts = <<>>
    /\ req = [r \in Reqs |-> Req0]
    /\ plan_view = [r \in Reqs |-> PlanView0]
    /\ admin_view = [r \in Reqs |-> AdminView0]
    /\ obs = [r \in Reqs |-> Obs0]
    /\ guild_invite_cache = <<>>
    /\ env = Env0
    /\ store_files = [links |-> TableFile(<<>>), invites |-> TableFile(<<>>)]
    /\ api = Api0
    /\ ipfile \in FilesOfLines(OrderLineTexts, MaxOrderLines)
    /\ pool = [Pool0 EXCEPT !.limit = MaxOrderOps, !.followed = TRUE,
                            !.start = ipfile]

SpecOrder == InitOrder /\ [][NextPool]_vars

\* guild_invite_cache[guild] as earlier joins can have left it
CachedUses == UNION { [S -> 0..MaxUses] : S \in SUBSET {"c1", "c2"} }

\* one join handled alone, from every cache and with every fetched list; the
\* join is kept
InitJoin ==
    /\ build \in {"main", "bot"}
    /\ invite_counts \in InitCounts
    /\ BOOST_REWARDS_ENABLED = TRUE
    /\ INVITE_REWARDS_ENABLED_GLOBAL = TRUE
    /\ linked_accounts = <<>>
    /\ req = [r \in Reqs |-> Req0]
    /\ plan_view = [r \in Reqs |-> PlanView0]
    /\ admin_view = [r \in Reqs |-> AdminView0]
    /\ obs = [r \in Reqs |-> Obs0]
    /\ pool = Pool0
    /\ guild_invite_cache \in
         { <<>> } \cup { [g \in Guilds |-> c] : c \in CachedUses }
    /\ env = [Env0 EXCEPT !.fetches = "all", !.kept = TRUE,
                          !.saves = SaveOutcomes]
    /\ store_files = [links |-> TableFile(linked_accounts),
                      invites |-> TableFile(invite_counts)]
    /\ api = Api0
    /\ ipfile = NoFile

NextJoin == MemberJoin

SpecJoin == InitJoin /\ [][NextJoin]_vars

\* linked_accounts.json when the bot starts
LinkFilesAtStart ==
    { MissingFile } \cup { TableFile(t) : t \in InitLinks \cup { [u \in {"a1"} |-> "8"] } }

\* the link store from the start of the bot: setup_hook, then link and unlink
\* calls, which are kept
InitLinkStore ==
    /\ build \in {"main", "bot"}
    /\ invite_counts = <<>>
    /\ BOOST_REWARDS_ENABLED = TRUE
    /\ INVITE_REWARDS_ENABLED_GLOBAL = TRUE
    /\ linked_accounts = <<>>
    /\ req = [r \in Reqs |-> Req0]
    /\ plan_view = [r \in Reqs |-> PlanView0]
    /\ admin_view = [r \in Reqs |-> AdminView0]
    /\ obs = [r \in Reqs |-> Obs0]
    /\ pool = Pool0
    /\ guild_invite_cache = <<>>
    /\ env = [Env0 EXCEPT !.loaded = FALSE, !.link_limit = MaxLinkCalls,
                          !.kept = TRUE, !.saves = SaveOutcomes]
    /\ store_files \in [links : LinkFilesAtStart,
                         invites : {MissingFile, TableFile(<<>>)}]
    /\ api = Api0
    /\ ipfile = NoFile

NextLinkStore == LoadStores \/ LinkAccount \/ UnlinkAccount

SpecLinks == InitLinkStore /\ [][NextLinkStore]_vars

\* one request from a pool of two IPs and linked users, with the scheduling
\* that the event loop, Discord and the panel provide: an awaited message
\* edit returns or raises, the view's timeout fires, a handler whose wait is
\* over is resumed, and the panel call returns
InitLive ==
    /\ InitCommon
    /\ env = [Env0 EXCEPT !.click_limit = MaxStoreClicks]
    /\ ipfile = FileOf(<<"A", NL, "B">>)
    /\ linked_accounts = [u \in {"u1", "a1"} |-> "7"]

NextLive ==
    \/ \E r \in DOMAIN req : Invoke(r)
    \/ \E r \in DOMAIN req : PlanSelect(r)
    \/ \E r \in DOMAIN req : PlanPaid(r)
    \/ \E r \in DOMAIN req : PlanTimeout(r)
    \/ \E r \in DOMAIN req : AfterPlanWait(r)
    \/ \E r \in DOMAIN req : PostApprovalRequest(r)
    \/ \E r \in DOMAIN req : AdminClick(r)
    \/ \E r \in DOMAIN req : AdminCallbackResume(r)
    \/ \E r \in DOMAIN req : AdminTimeout(r)
    \/ \E r \in DOMAIN req : ProcessDecision(r)
    \/ \E r \in DOMAIN req : CreateReturn(r)

Scheduling ==
    \A r \in Reqs :
        /\ WF_vars(AdminCallbackResume(r))
        /\ WF_vars(AdminTimeout(r))
        /\ WF_vars(ProcessDecision(r))
        /\ WF_vars(CreateReturn(r))

SpecLive == InitLive /\ [][NextLive]_vars /\ Scheduling

\* one request on which several admins may click, the first accepted click
\* being kept
InitClicks ==
    /\ InitCommon
    /\ env = [Env0 EXCEPT !.first_kept = TRUE]
    /\ ipfile = FileOf(<<"A", NL, "B">>)
    /\ linked_accounts = [u \in {"u1", "a1"} |-> "7"]

SpecClicks == InitClicks /\ [][NextLive]_vars

\* two /create requests of u1 in flight together
RaceReqs == {"r1", "r2"}

\* every write of and append to ips.txt so far succeeded, the requester is
\* u1, the clicks come from the VPS creator a1, and r1 names the request
\* that was invoked first
Undisturbed ==
    \A r \in DOMAIN req :
        /\ obs[r].write = "ok"
        /\ obs[r].appends = obs[r].append_tries
        /\ req[r].user \in {None, "u1"}
        /\ obs[r].refused_clicks = 0
        /\ admin_view[r].response_admin \in {None, "a1"}
        /\ (r = "r2" /\ req[r].pc # "idle") => req["r1"].pc # "idle"

\* two requests of the linked user u1, who has two tracked invites, run
\* together from a pool of two IPs, their steps interleaving at the awaits
InitRace ==
    /\ build \in {"main", "bot"}
    /\ invite_counts = [g \in Guilds |-> [u \in {"u1"} |-> 2]]
    /\ BOOST_REWARDS_ENABLED = TRUE
    /\ INVITE_REWARDS_ENABLED_GLOBAL = TRUE
    /\ linked_accounts = [u \in {"u1", "a1"} |-> "7"]
    /\ req = [r \in RaceReqs |-> Req0]
    /\ plan_view = [r \in RaceReqs |-> PlanView0]
    /\ admin_view = [r \in RaceReqs |-> AdminView0]
    /\ obs = [r \in RaceReqs |-> Obs0]
    /\ pool = Pool0
    /\ guild_invite_cache = <<>>
    /\ env = [Env0 EXCEPT !.click_limit = MaxRaceClicks]
    /\ store_files = [links |-> TableFile(linked_accounts),
                      invites |-> TableFile(invite_counts)]
    /\ api = Api0
    /\ ipfile = FileOf(<<"A", NL, "B">>)

NextRace ==
    \/ \E r \in DOMAIN req : Invoke(r) /\ Undisturbed'
    \/ \E r \in DOMAIN req : PlanSelect(r)
    \/ \E r \in DOMAIN req : PlanPaid(r)
    \/ \E r \in DOMAIN req : PlanTimeout(r)
    \/ \E r \in DOMAIN req : AfterPlanWait(r) /\ Undisturbed'
    \/ \E r \in DOMAIN req : PostApprovalRequest(r) /\ Undisturbed'
    \/ \E r \in DOMAIN req : AdminClick(r) /\ Undisturbed'
    \/ \E r \in DOMAIN req : AdminCallbackResume(r)
    \/ \E r \in DOMAIN req : AdminTimeout(r)
    \/ \E r \in DOMAIN req : ProcessDecision(r) /\ Undisturbed'
    \/ \E r \in DOMAIN req : CreateReturn(r) /\ Undisturbed'

SpecRace == InitRace /\ [][NextRace]_vars

----------------------------------------------------------------------------
(* Joins in flight: on_member_join handlers, which sleep and then fetch the *)
(* invites of the guild, beside each other and beside                       *)
(* cache_invites_periodically                                               *)

JoinMembers == {"m1", "m2"}

InviteCodes == {"c1", "c2"}

\* invite.inviter of the two invites of the guild
InviteOwner == [c \in InviteCodes |-> IF c = "c1" THEN "u1" ELSE "a1"]

\* what guild.invites() returns while the invites of the guild have these
\* use counts
guild_invites(uses) ==
    << [code |-> "c1", uses |-> uses["c1"], inviter |-> InviteOwner["c1"]],
       [code |-> "c2", uses |-> uses["c2"], inviter |-> InviteOwner["c2"]] >>

Handler0 == [pc |-> "none", guild |-> None, snapshot |-> <<>>]

Refresh0 == [pc |-> "sleeping", guild |-> None, snapshot |-> <<>>]

\* a member joins through an invite, which Discord counts at once; the
\* handler returns for a bot and goes to sleep for anyone else
MemberJoinSleep(m) ==
    /\ env.loaded
    /\ env.handlers # <<>>
    /\ env.handlers[m].pc = "none"
    /\ \E g \in Guilds, c \in InviteCodes, is_bot \in BOOLEAN :
        env' = [env EXCEPT
                  !.invites[g][c] = @ + 1,
                  !.handlers[m] = [pc |-> IF is_bot THEN "done" ELSE "sleeping",
                                   guild |-> g, snapshot |-> <<>>],
                  !.joins_via[InviteOwner[c]] = IF is_bot THEN @ ELSE @ + 1]
    /\ UNCHANGED <<build, ipfile, invite_counts, BOOST_REWARDS_ENABLED,
                   INVITE_REWARDS_ENABLED_GLOBAL, req, plan_view, admin_view,
                   obs, linked_accounts, pool, guild_invite_cache,
                   store_files, api>>

\* "current_guild_invites = await member.guild.invites()": the list as the
\* guild has it now, or Forbidden or HTTPException and the handler returns
MemberJoinFetch(m) ==
    /\ env.handlers # <<>>
    /\ env.handlers[m].pc = "sleeping"
    /\ \E fetch \in {"ok", "fails"} :
        env' = IF fetch = "ok"
               THEN [env EXCEPT
                       !.handlers[m].pc = "fetched",
                       !.handlers[m].snapshot =
                           guild_invites(env.invites[env.handlers[m].guild])]
               ELSE [env EXCEPT !.handlers[m].pc = "done",
                                !.fetch_failed = TRUE]
    /\ UNCHANGED <<build, ipfile, invite_counts, BOOST_REWARDS_ENABLED,
                   INVITE_REWARDS_ENABLED_GLOBAL, req, plan_view, admin_view,
                   obs, linked_accounts, pool, guild_invite_cache,
                   store_files, api>>

\* on_member_join from the comparison with the cache to the cache update
MemberJoinFinish(m) ==
    /\ env.handlers # <<>>
    /\ env.handlers[m].pc = "fetched"
    /\ LET g       == env.handlers[m].guild
           invites == env.handlers[m].snapshot
           cached  == Get(guild_invite_cache, g, <<>>)
           found   == found_inviter_user(invites, cached)
           counts  == credited(found, m)
       IN  \E sv \in IF counts THEN env.saves ELSE {"ok"} :
           /\ invite_counts' =
                IF counts THEN increment_invite_count(invite_counts, g, found)
                ELSE invite_counts
           /\ store_files' =
                IF counts
                THEN [store_files EXCEPT
                        !.invites = save_json_file(@, invite_counts', sv).file]
                ELSE store_files
           /\ guild_invite_cache' =
                Put(guild_invite_cache, g, uses_by_code(invites))
    /\ env' = [env EXCEPT !.handlers[m].pc = "done"]
    /\ UNCHANGED <<build, ipfile, BOOST_REWARDS_ENABLED,
                   INVITE_REWARDS_ENABLED_GLOBAL, req, plan_view, admin_view,
                   obs, linked_accounts, pool, api>>

\* cache_invites_periodically: "invites = await guild.invites()"
CacheInvitesFetch ==
    /\ env.refresh # <<>>
    /\ env.refresh.pc = "sleeping"
    /\ \E g \in Guilds :
        env' = [env EXCEPT
                  !.refresh = [pc |-> "fetched", guild |-> g,
                               snapshot |-> guild_invites(env.invites[g])]]
    /\ UNCHANGED <<build, ipfile, invite_counts, BOOST_REWARDS_ENABLED,
                   INVITE_REWARDS_ENABLED_GLOBAL, req, plan_view, admin_view,
                   obs, linked_accounts, pool, guild_invite_cache,
                   store_files, api>>

\* cache_invites_periodically: the cache entry of the guild is replaced, and
\* the task sleeps
CacheInvitesStore ==
    /\ env.refresh # <<>>
    /\ env.refresh.pc = "fetched"
    /\ guild_invite_cache' =
         Put(guild_invite_cache, env.refresh.guild,
             uses_by_code(env.refresh.snapshot))
    /\ env' = [env EXCEPT !.refresh = Refresh0]
    /\ UNCHANGED <<build, ipfile, invite_counts, BOOST_REWARDS_ENABLED,
                   INVITE_REWARDS_ENABLED_GLOBAL, req, plan_view, admin_view,
                   obs, linked_accounts, pool, store_files, api>>

\* the bot is ready and cache_invites_periodically has cached the invites of
\* the guild once; nobody has joined since
InitJoins ==
    /\ build \in {"main", "bot"}
    /\ invite_counts \in InitCounts
    /\ BOOST_REWARDS_ENABLED = TRUE
    /\ INVITE_REWARDS_ENABLED_GLOBAL = TRUE
    /\ linked_accounts = <<>>
    /\ req = [r \in Reqs |-> Req0]
    /\ plan_view = [r \in Reqs |-> PlanView0]
    /\ admin_view = [r \in Reqs |-> AdminView0]
    /\ obs = [r \in Reqs |-> Obs0]
    /\ pool = Pool0
    /\ guild_invite_cache = [g \in Guilds |-> [c \in InviteCodes |-> 0]]
    /\ env = [Env0 EXCEPT
                !.invites = [g \in Guilds |-> [c \in InviteCodes |-> 0]],
                !.handlers = [m \in JoinMembers |-> Handler0],
                !.refresh = Refresh0,
                !.joins_via = [u \in {"u1", "a1"} |-> 0],
                !.counts_at_start = invite_counts]
    /\ store_files = [links |-> TableFile(linked_accounts),
                      invites |-> TableFile(invite_counts)]
    /\ api = Api0
    /\ ipfile = NoFile

NextJoins ==
    \/ \E m \in JoinMembers : MemberJoinSleep(m)
    \/ \E m \in JoinMembers : MemberJoinFetch(m)
    \/ \E m \in JoinMembers : MemberJoinFinish(m)
    \/ CacheInvitesFetch
    \/ CacheInvitesStore

SpecJoins == InitJoins /\ [][NextJoins]_vars

----------------------------------------------------------------------------
(* admin_create_vps *)

AdminCreate0 == [pc |-> "idle", assigned_ip |-> NoIp, pool_before |-> NoFile,
                 write |-> "ok", outcome |-> None]

\* admin_create_vps up to the creation call: the early returns (nobody
\* linked, no node, no template, modal not submitted) or the IP taken from
\* the pool and POST /servers sent
AdminCreateVps ==
    /\ env.admin_create # <<>>
    /\ env.admin_create.pc = "idle"
    /\ \E submitted \in BOOLEAN :
       \E wr \in IF submitted THEN WriteOutcomes ELSE {"ok"} :
        LET got == get_and_remove_first_ip(ipfile, wr)
        IN  IF submitted
            THEN /\ ipfile' = got.file
                 /\ env' = [env EXCEPT !.admin_create =
                              [pc |-> "creating", assigned_ip |-> got.ret,
                               pool_before |-> ipfile, write |-> wr,
                               outcome |-> None]]
            ELSE /\ ipfile' = ipfile
                 /\ env' = [env EXCEPT !.admin_create.pc = "done",
                                       !.admin_create.outcome = "NotSubmitted"]
    /\ UNCHANGED <<build, invite_counts, BOOST_REWARDS_ENABLED,
                   INVITE_REWARDS_ENABLED_GLOBAL, req, plan_view, admin_view,
                   obs, linked_accounts, pool, guild_invite_cache,
                   store_files, api>>

\* admin_create_vps from the return of the creation call to its end: the
\* details are sent when the server was created, and nothing follows
\* otherwise
AdminCreateReturn ==
    /\ env.admin_create # <<>>
    /\ env.admin_create.pc = "creating"
    /\ \E resp \in ApiResults :
        env' = [env EXCEPT
                  !.admin_create.pc = "done",
                  !.admin_create.outcome =
                      IF CreationResult(build, resp) = "created" THEN "Created"
                      ELSE IF CreationResult(build, resp) = "raises"
                      THEN "Crashed"
                      ELSE "CreationFailed"]
    /\ UNCHANGED <<build, ipfile, invite_counts, BOOST_REWARDS_ENABLED,
                   INVITE_REWARDS_ENABLED_GLOBAL, req, plan_view, admin_view,
                   obs, linked_accounts, pool, guild_invite_cache,
                   store_files, api>>

\* one call of /admin createvps on every small pool file
InitAdminCreate ==
    /\ build \in {"main", "bot"}
    /\ invite_counts = <<>>
    /\ BOOST_REWARDS_ENABLED = TRUE
    /\ INVITE_REWARDS_ENABLED_GLOBAL = TRUE
    /\ linked_accounts = <<>>
    /\ req = [r \in Reqs |-> Req0]
    /\ plan_view = [r \in Reqs |-> PlanView0]
    /\ admin_view = [r \in Reqs |-> AdminView0]
    /\ obs = [r \in Reqs |-> Obs0]
    /\ pool = Pool0
    /\ guild_invite_cache = <<>>
    /\ env = [Env0 EXCEPT !.admin_create = AdminCreate0]
    /\ store_files = [links |-> TableFile(<<>>), invites |-> TableFile(<<>>)]
    /\ api = Api0
    /\ ipfile \in {NoFile} \cup FilesOfLines(PoolLineTexts, MaxPoolLines)

NextAdminCreate == AdminCreateVps \/ AdminCreateReturn

SpecAdminCreate == InitAdminCreate /\ [][NextAdminCreate]_vars

----------------------------------------------------------------------------
(* make_api_request *)

\* the response bodies told apart by the code: a JSON object, an object with
\* an "errors" list of objects, an object whose "errors" list holds something
\* else, a JSON list, the JSON null, and text that is not JSON
Bodies == {"dict", "errors", "bad_errors", "list", "null", "garbage"}

Statuses == {200, 201, 204, 400, 404, 500}

\* Content-Type contains 'application/json' or not
ContentTypes == {"json", "other"}

\* what session.request / response.text() does: a response arrives, or it
\* raises ClientConnectorError, asyncio.TimeoutError or another exception
Transports == {"response", "connector", "timeout", "other"}

\* the interaction argument: None, one whose response is not done, one whose
\* response is done (sent or deferred)
Interactions == {None, "fresh", "done"}

Sessions == {"none", "open", "closed"}

NoReport == [title |-> None, delivered |-> FALSE]

\* the values make_api_request returns: Python's None, the 204 marker, a
\* parsed body, the raw text
ApiNone == [kind |-> "None"]

Sentinel204 == [kind |-> "dict", status_code |-> 204, message |-> "Action completed."]

\* json.loads / response.json() of a body that is JSON
json_loads(body) == IF body = "null" THEN ApiNone ELSE [kind |-> "json", body |-> body]

decodable(body) == body # "garbage"

\* "if bot.http_session and bot.http_session.closed: bot.http_session =
\* aiohttp.ClientSession(...)"
recreated_never(session) == session

recreated(session) == IF session = "closed" THEN "open" ELSE session

\* the except clauses around the request: ClientConnectorError,
\* asyncio.TimeoutError, Exception
caught_network_only(exc) == exc \in {"connector", "timeout"}

caught(exc) == exc \in {"connector", "timeout", "other"}

\* "if interaction and not interaction.response.is_done()"
reports(interaction) == interaction # None /\ interaction # "done"

\* the body of "async with ... as response": returns a value, reports and
\* returns None, or raises
handle_response(status, ctype, body) ==
    IF 200 <= status /\ status < 300
    THEN IF status = 204
         THEN [kind |-> "return", ret |-> Sentinel204, title |-> None]
         ELSE IF ctype = "json"
         THEN IF decodable(body)
              THEN [kind |-> "return", ret |-> json_loads(body), title |-> None]
              ELSE [kind |-> "report", ret |-> ApiNone, title |-> "API Response Error"]
         ELSE [kind |-> "return",
               ret |-> [kind |-> "dict", raw_content |-> body,
                        status_code |-> status],
               title |-> None]
    ELSE IF decodable(body) /\ body \in {"list", "null", "bad_errors"}
         THEN [kind |-> "raise", ret |-> ApiNone, title |-> None]
         ELSE [kind |-> "report", ret |-> ApiNone, title |-> "Panel API Error"]

\* make_api_request(): [ret, raised, report, requested, session], where
\* report is the error embed sent through the interaction, requested tells
\* whether session.request was called on an open session, and session is
\* bot.http_session afterwards
make_api_request(session, interaction, transport, status, ctype, body, send) ==
    LET now == recreated(session)
        report(title) ==
            IF reports(interaction)
            THEN [title |-> title, delivered |-> send = "ok"]
            ELSE NoReport
        done == handle_response(status, ctype, body)
        exc  == IF now = "closed" THEN "other"
                ELSE IF transport # "response" THEN transport
                ELSE IF done.kind = "raise" THEN "other"
                ELSE "none"
    IN  IF now = "none"
        THEN [ret |-> ApiNone, raised |-> FALSE, report |-> report("Bot Error"),
              requested |-> FALSE, session |-> now]
        ELSE IF exc = "none"
        THEN [ret |-> done.ret, raised |-> FALSE,
              report |-> IF done.kind = "report" THEN report(done.title)
                         ELSE NoReport,
              requested |-> TRUE, session |-> now]
        ELSE IF caught(exc)
        THEN [ret |-> ApiNone, raised |-> FALSE,
              report |-> report(IF exc = "connector" THEN "Network Error"
                                ELSE IF exc = "timeout" THEN "Network Timeout"
                                ELSE "Bot Error"),
              requested |-> now = "open", session |-> now]
        ELSE [ret |-> ApiNone, raised |-> TRUE, report |-> NoReport,
              requested |-> now = "open", session |-> now]

\* one call of make_api_request
ApiCall ==
    /\ api.calls < MaxApiCalls
    /\ \E interaction \in Interactions, transport \in Transports,
          send \in {"ok", "fails"} :
       \E status \in IF transport = "response" THEN Statuses ELSE {200} :
       \E ctype \in IF transport = "response" /\ status # 204
                     THEN ContentTypes ELSE {"json"} :
       \E body \in IF transport = "response" /\ status # 204
                    THEN Bodies ELSE {"dict"} :
        LET args == [session |-> api.session, interaction |-> interaction,
                     transport |-> transport, status |-> status,
                     ctype |-> ctype, body |-> body, send |-> send]
            out  == make_api_request(api.session, interaction, transport,
                                     status, ctype, body, send)
        IN  api' = [session |-> out.session, calls |-> api.calls + 1,
                    args |-> args, result |-> out]
    /\ UNCHANGED <<build, ipfile, invite_counts, BOOST_REWARDS_ENABLED,
                   INVITE_REWARDS_ENABLED_GLOBAL, req, plan_view, admin_view,
                   obs, linked_accounts, pool, guild_invite_cache, env,
                   store_files>>

\* ConvoyBot.close()
CloseSession ==
    /\ api.session = "open"
    /\ api' = [api EXCEPT !.session = "closed"]
    /\ UNCHANGED <<build, ipfile, invite_counts, BOOST_REWARDS_ENABLED,
                   INVITE_REWARDS_ENABLED_GLOBAL, req, plan_view, admin_view,
                   obs, linked_accounts, pool, guild_invite_cache, env,
                   store_files>>

\* the client alone, before or after setup_hook created the session
InitApi ==
    /\ build \in {"main", "bot"}
    /\ invite_counts = <<>>
    /\ BOOST_REWARDS_ENABLED = TRUE
    /\ INVITE_REWARDS_ENABLED_GLOBAL = TRUE
    /\ linked_accounts = <<>>
    /\ req = [r \in Reqs |-> Req0]
    /\ plan_view = [r \in Reqs |-> PlanView0]
    /\ admin_view = [r \in Reqs |-> AdminView0]
    /\ obs = [r \in Reqs |-> Obs0]
    /\ pool = Pool0
    /\ guild_invite_cache = <<>>
    /\ env = Env0
    /\ store_files = [links |-> TableFile(<<>>), invites |-> TableFile(<<>>)]
    /\ api \in { [Api0 EXCEPT !.session = s] : s \in {"none", "open"} }
    /\ ipfile = NoFile

NextApi == ApiCall \/ CloseSession

SpecApi == InitApi /\ [][NextApi]_vars

----------------------------------------------------------------------------
(* Claims *)

Terminal(r) == req[r].pc = "done"

HeldIp(r) == req[r].assigned_ip

\* the file writes of request r all succeeded
WritesSucceeded(r) ==
    obs[r].write = "ok" /\ obs[r].appends = obs[r].append_tries

AsSet(seq) == {seq[i] : i \in 1..Len(seq)}

\* C1: a request that reserved an IP and ended Denied, TimedOut or
\* CreationFailed has, when its handler finishes and its file writes
\* succeeded, its IP back in the pool exactly once, and the pool holds the
\* entries it held before the request.
C1_CompensationRestoresPool ==
    \A r \in DOMAIN req :
        (/\ Terminal(r)
         /\ obs[r].outcome \in {"Denied", "TimedOut", "CreationFailed"}
         /\ WritesSucceeded(r))
        => /\ Count(Entries(ipfile), HeldIp(r)) = 1
           /\ AsSet(Entries(ipfile)) = AsSet(Entries(obs[r].pool_before))

\* C2: a request whose boost or invite verification failed never called
\* get_and_remove_first_ip and holds no IP.
C2_NoReservationBeforeValidation ==
    \A r \in DOMAIN req :
        obs[r].outcome = "Ineligible"
        => ~obs[r].dispensed /\ HeldIp(r) = NoIp

\* C3: in the Denied, TimedOut and CreationFailed branches the append to the
\* pool file is executed whatever became of the private message and of the
\* fallback follow-up.
C3_ReturnIndependentOfNotification ==
    \A r \in DOMAIN req :
        (Terminal(r) /\ obs[r].outcome \in {"Denied", "TimedOut", "CreationFailed"})
        => obs[r].append_tries = 1

C5_CreatedNeverReturnsIp ==
    \A r \in DOMAIN req :
        obs[r].outcome = "Created"
        => obs[r].append_tries = 0 /\ obs[r].appends = 0

C5_Witness ==
    \E r \in DOMAIN req :
        /\ Terminal(r)
        /\ obs[r].outcome = "Created"
        /\ obs[r].dm = "fail"
        /\ HeldIp(r) # NoIp

\* C6: POST /servers is issued at most once per request, and only after a
\* VPS creator pressed Approve on its view; a request whose view reports Deny
\* or no decision when the wait ends never issues it.
C6_CreationOnlyAfterApproval ==
    \A r \in DOMAIN req :
        /\ obs[r].api_calls <= 1
        /\ obs[r].api_calls > 0
            => /\ obs[r].approve_pressed
               /\ admin_view[r].finished
               /\ admin_view[r].status = "True"
        /\ (req[r].pc \in {"creating", "done"}
             /\ admin_view[r].status \in {"False", "None"})
            => obs[r].api_calls = 0
        /\ obs[r].outcome \in {"Denied", "TimedOut"} => obs[r].api_calls = 0

C6_Witness ==
    \E r \in DOMAIN req :
        /\ obs[r].api_calls = 1
        /\ obs[r].approve_pressed
        /\ req[r].pc = "creating"

\* C7: a click on Approve or Deny by a user who is not a VPS creator leaves
\* the view's status and response_admin unchanged, starts no callback and
\* does not stop the view.
C7_OnlyCreatorsDecide ==
    [][\A r \in DOMAIN req :
          (/\ admin_view'[r].clicks = admin_view[r].clicks + 1
           /\ obs'[r].last_click_creator = "no")
          => /\ admin_view'[r].status = admin_view[r].status
             /\ admin_view'[r].response_admin = admin_view[r].response_admin
             /\ admin_view'[r].finished = admin_view[r].finished
             /\ admin_view'[r].in_callback = admin_view[r].in_callback]_vars

C7_Witness ==
    \E r \in DOMAIN req :
        /\ obs[r].refused_clicks > 0
        /\ obs[r].last_click_creator = "no"
        /\ admin_view[r].status = "None"
        /\ ~admin_view[r].finished

\* C8 as stated: every terminal outcome after the reservation sends exactly
\* one message to the requester.
C8_ExactlyOneNotification ==
    \A r \in DOMAIN req :
        (Terminal(r)
         /\ obs[r].outcome \in {"Created", "Denied", "TimedOut", "CreationFailed"})
        => obs[r].msgs = 1

\* C8 amended: Denied, TimedOut and CreationFailed send at most one message
\* to the requester; Created sends at most two, and two exactly when the
\* private message and the success embed after it were both delivered; no
\* message reaches the requester only when every send attempted failed.
C8_NotificationCount ==
    \A r \in DOMAIN req :
        (Terminal(r)
         /\ obs[r].outcome \in {"Created", "Denied", "TimedOut", "CreationFailed"})
        => /\ obs[r].outcome # "Created" => obs[r].msgs <= 1
           /\ obs[r].outcome = "Created"
               => /\ obs[r].msgs <= 2
                  /\ obs[r].msgs = 2 <=> (obs[r].dm = "ok" /\ obs[r].embed = "ok")
           /\ obs[r].msgs = 0
               <=> (obs[r].dm # "ok" /\ obs[r].followup # "ok" /\ obs[r].embed # "ok")

C8_Witness ==
    \E r \in DOMAIN req :
        /\ Terminal(r)
        /\ obs[r].outcome = "Created"
        /\ obs[r].msgs = 2

\* C9: in the CreationFailed branch the error embed to the requester is
\* sent, the approving administrator is sent the critical-failure message,
\* and the append of the IP is executed, also when the administrator's
\* message could not be delivered; when the append succeeds the IP is an
\* entry of the pool again.
C9_CreationFailedCompensates ==
    \A r \in DOMAIN req :
        obs[r].outcome = "CreationFailed"
        => /\ obs[r].embed \in {"ok", "fail"}
           /\ obs[r].admin_alert \in {"sent", "failed"}
           /\ admin_view[r].response_admin \in VpsCreators
           /\ obs[r].append_tries = 1
           /\ ~obs[r].raised
           /\ obs[r].appends = 1 => Count(Entries(ipfile), HeldIp(r)) >= 1

C9_Witness ==
    \E r \in DOMAIN req :
        /\ Terminal(r)
        /\ obs[r].outcome = "CreationFailed"
        /\ obs[r].admin_alert = "failed"
        /\ obs[r].appends = 1
        /\ Count(Entries(ipfile), HeldIp(r)) = 1

\* C10: when the file holds an entry and the rewrite succeeds,
\* get_and_remove_first_ip returns the stripped text of the first line that
\* is neither blank nor a comment, and leaves in the file exactly what
\* followed that line; from "A, B, C" it returns A and leaves "B, C".
C10_DispenseFirstEntry ==
    LET d    == pool.before.data
        Free(l) == strip(l) = <<>> \/ strip(l)[1] = "#"
    IN  (/\ pool.kind = "dispense"
         /\ pool.wr = "ok"
         /\ \E i \in 1..Len(readlines(d)) : ~Free(readlines(d)[i]))
        => /\ \E k \in 1..Len(d) :
                LET cut == readlines(SubSeq(d, 1, k))
                IN  /\ k = Len(d) \/ d[k] = NL
                    /\ \A i \in 1..(Len(cut) - 1) : Free(cut[i])
                    /\ ~Free(cut[Len(cut)])
                    /\ pool.ret = strip(cut[Len(cut)])
                    /\ ipfile.data = SubSeq(d, k + 1, Len(d))
           /\ d = <<"A", NL, "B", NL, "C", NL>>
               => pool.ret = <<"A">> /\ ipfile.data = <<"B", NL, "C", NL>>

C10_Witness ==
    /\ pool.kind = "dispense"
    /\ pool.wr = "ok"
    /\ pool.before.data = <<"A", NL, "B", NL, "C", NL>>
    /\ pool.ret = <<"A">>
    /\ ipfile.data = <<"B", NL, "C", NL>>

\* the text of a line without its line terminator
Chomp(line) ==
    IF line # <<>> /\ line[Len(line)] = NL THEN SubSeq(line, 1, Len(line) - 1)
    ELSE line

\* the comment lines of a file, as texts
CommentLines(file) ==
    LET ls == readlines(file.data)
    IN  {Chomp(ls[i]) : i \in {j \in 1..Len(ls) :
                                  strip(ls[j]) # <<>> /\ strip(ls[j])[1] = "#"}}

\* C11: get_and_remove_first_ip on an existing file that is empty or holds
\* only blank and comment lines returns None and leaves the file as it was,
\* whatever a write would have done.
C11_ExhaustedPoolUntouched ==
    (/\ pool.kind = "dispense"
     /\ pool.before.exists
     /\ \A i \in 1..Len(readlines(pool.before.data)) :
            LET l == strip(readlines(pool.before.data)[i])
            IN  l = <<>> \/ l[1] = "#")
    => pool.ret = NoIp /\ ipfile = pool.before

C11_Witness ==
    /\ pool.kind = "dispense"
    /\ pool.before = FileOf(<<"#", "A", NL, NL, " ", "#">>)
    /\ pool.ret = NoIp
    /\ ipfile = pool.before

\* C13: every comment line of the file before a dispense or a return whose
\* write succeeded is still a line of the file after it, the comment lines
\* that precede the first entry included.
C13_CommentsPreserved ==
    (pool.kind \in {"dispense", "return"} /\ pool.wr = "ok" /\ pool.before.exists)
    => CommentLines(pool.before) \subseteq CommentLines(ipfile)

\* C14: get_and_remove_first_ip on a missing file returns None without
\* raising and, when the write succeeds, leaves a file holding only the
\* comment header; a call on that file returns None again and leaves it.
C14_MissingFileCreated ==
    /\ (pool.kind = "dispense" /\ ~pool.before.exists)
       => /\ pool.ret = NoIp
          /\ pool.wr = "ok" => ipfile = FileOf(HeaderComment)
          /\ pool.wr = "open_fails" => ipfile = NoFile
    /\ (pool.kind = "dispense" /\ pool.before = FileOf(HeaderComment))
       => pool.ret = NoIp /\ ipfile = FileOf(HeaderComment)

C14_Witness ==
    /\ pool.kind = "dispense"
    /\ pool.ops = 2
    /\ pool.before = FileOf(HeaderComment)
    /\ pool.ret = NoIp
    /\ ipfile = FileOf(HeaderComment)

\* C12: on a pool whose entries are x then y, a dispense (which returns x)
\* followed by the append of x leaves the entries y then x, and the next two
\* dispenses return y and then x; so from "A, B" the order becomes "B, A".
C12_ReturnIsAppend ==
    LET c  == pool.calls
        e  == Entries(pool.start)
        Ok(i, kind) == c[i].kind = kind /\ c[i].wr = "ok"
    IN  (/\ Len(e) = 2
         /\ Len(c) >= 2
         /\ Ok(1, "dispense")
         /\ Ok(2, "return"))
        => /\ c[1].ret = e[1]
           /\ c[2].ret = e[1]
           /\ Len(c) = 2 => Entries(ipfile) = <<e[2], e[1]>>
           /\ (Len(c) >= 3 /\ Ok(3, "dispense")) => c[3].ret = e[2]
           /\ (Len(c) = 4 /\ Ok(3, "dispense") /\ Ok(4, "dispense"))
               => c[4].ret = e[1] /\ Entries(ipfile) = <<>>

C12_Witness ==
    /\ pool.start = FileOf(<<"A", NL, "B">>)
    /\ Len(pool.calls) = 4
    /\ \A i \in 1..4 : pool.calls[i].wr = "ok"
    /\ <<pool.calls[1].kind, pool.calls[2].kind, pool.calls[3].kind,
         pool.calls[4].kind>> = <<"dispense", "return", "dispense", "dispense">>
    /\ <<pool.calls[1].ret, pool.calls[2].ret, pool.calls[3].ret,
         pool.calls[4].ret>> = <<<<"A">>, <<"A">>, <<"B">>, <<"A">>>>

\* the request has passed the point where create_vps verifies the plan
Validated(r) == req[r].pc \in {"submitted", "await_admin", "creating", "done"}

InvitesRequired(r) == Get(req[r].plan_data, "invites_required", 999)

\* C15: a boost-plan request holds a reserved IP or has an approval request
\* posted only if the requester was boosting the guild and the guild's boost
\* tier was at least the plan's minimum tier.
C15_BoostEligibility ==
    \A r \in DOMAIN req :
        (/\ req[r].plan_type = "boost"
         /\ HeldIp(r) # NoIp \/ admin_view[r].sent)
        => obs[r].boosting /\ obs[r].tier_met

\* C16: an invite-plan request has an approval request posted only if the
\* requester's count read at validation was at least the plan's
\* invites_required (999 when not configured); a request validated with a
\* lower count ended there, with nothing posted and no creation call.
C16_InviteEligibility ==
    \A r \in DOMAIN req :
        (req[r].plan_type = "invite" /\ Validated(r))
        => /\ (admin_view[r].sent \/ req[r].pc # "done" \/ obs[r].api_calls > 0)
              => obs[r].invites_at_check >= InvitesRequired(r)
           /\ (HeldIp(r) # NoIp /\ obs[r].invites_at_check < InvitesRequired(r))
              => /\ req[r].pc = "done"
                 /\ obs[r].outcome = "Ineligible"
                 /\ ~admin_view[r].sent
                 /\ obs[r].api_calls = 0

C16_Witness ==
    \E r \in DOMAIN req :
        /\ req[r].plan_type = "invite"
        /\ admin_view[r].sent
        /\ obs[r].invites_at_check = InvitesRequired(r)
        /\ env.joined # {}

\* C17: when the reservation in create_vps yields no IP, that step ends the
\* request with the resource error: no approval request is posted, no
\* creation call is made, nothing is appended to the pool file, the entries
\* of the pool and every invite counter are as before the step.
C17_NoIpAborts ==
    [][\A r \in DOMAIN req :
          (obs'[r].dispensed /\ req'[r].assigned_ip = NoIp)
          => /\ req'[r].pc = "done"
             /\ obs'[r].outcome = "NoIp"
             /\ obs'[r].reason = "Resource Error"
             /\ ~admin_view'[r].sent
             /\ obs'[r].api_calls = 0
             /\ obs'[r].append_tries = 0
             /\ ~obs[r].dispensed
                => /\ invite_counts' = invite_counts
                   /\ Entries(ipfile') = Entries(ipfile)
                   /\ Entries(ipfile) = <<>>]_vars

C17_Witness ==
    \E r \in DOMAIN req :
        /\ Terminal(r)
        /\ obs[r].outcome = "NoIp"
        /\ obs[r].dispensed
        /\ obs[r].pool_before = FileOf(<<>>)

\* C18: the timeout of a PlanSelectView with nothing selected, and the step
\* in which create_vps then ends, leave the pool file, the link table, the
\* invite counters and the approval view as they were; the request ends with
\* no reservation and no panel call.
C18_PlanTimeoutNoEffects ==
    [][\A r \in DOMAIN req :
          (/\ req[r].pc = "plan_wait"
           /\ plan_view[r].selected_plan_type = None
           /\ plan_view'[r].selected_plan_type = None
           /\ plan_view'[r] # plan_view[r] \/ req'[r] # req[r])
          => /\ ipfile' = ipfile
             /\ linked_accounts' = linked_accounts
             /\ invite_counts' = invite_counts
             /\ admin_view' = admin_view
             /\ ~admin_view'[r].sent
             /\ ~obs'[r].dispensed
             /\ obs'[r].api_calls = 0
             /\ obs'[r].append_tries = 0
             /\ req'[r] # req[r]
                => req'[r].pc = "done" /\ obs'[r].outcome = "NoPlan"]_vars

C18_Witness ==
    \E r \in DOMAIN req :
        /\ Terminal(r)
        /\ obs[r].outcome = "NoPlan"
        /\ plan_view[r].finished
        /\ plan_view[r].selected_plan_type = None
        /\ ipfile = FileOf(<<"A", NL, "B">>)

\* C19: in the step in which an invite-plan request becomes Created, the
\* requester's invite counter for the guild is 0 afterwards, whatever it was
\* at validation or became during the approval wait.
C19_RedeemResetsCounter ==
    [][\A r \in DOMAIN req :
          (/\ obs[r].outcome # "Created"
           /\ obs'[r].outcome = "Created"
           /\ req[r].plan_type = "invite")
          => get_user_invite_count(invite_counts', req[r].guild, req[r].user) = 0]_vars

C19_Witness ==
    \E r \in DOMAIN req :
        /\ obs[r].outcome = "Created"
        /\ req[r].plan_type = "invite"
        /\ obs[r].invites_at_check >= 2
        /\ env.joined # {}
        /\ get_user_invite_count(invite_counts, req[r].guild, req[r].user) = 0

\* C20: in every step each (guild, user) invite count is unchanged or
\* greater by exactly 1, except that the step in which an invite-plan
\* request becomes Created sets its requester's count to 0.
C20_CounterMonotone ==
    [][\A g \in Guilds, u \in Users \cup Joiners :
          LET old == get_user_invite_count(invite_counts, g, u)
              new == get_user_invite_count(invite_counts', g, u)
          IN  \/ new = old
              \/ new = old + 1
              \/ /\ new = 0
                 /\ \E r \in DOMAIN req :
                       /\ obs[r].outcome # "Created"
                       /\ obs'[r].outcome = "Created"
                       /\ req[r].plan_type = "invite"
                       /\ req[r].guild = g
                       /\ req[r].user = u]_vars

C20_Witness ==
    \E r \in DOMAIN req :
        /\ obs[r].outcome = "Created"
        /\ req[r].plan_type = "invite"
        /\ env.joined # {}
        /\ get_user_invite_count(invite_counts, req[r].guild, req[r].user) = 1


\* the join handler ran to its end in this step
JoinHandled == env'.join # env.join /\ env'.join.ran

\* the fetched invites that are new or have more uses than cached
ChangedInvites(j) ==
    { i \in 1..Len(j.invites) :
        \/ j.invites[i].code \notin DOMAIN j.cached
        \/ j.invites[i].uses > j.cached[j.invites[i].code] }

\* the fetched invites with more uses than cached, an uncached one counting
\* from 0
RisenInvites(j) ==
    { i \in 1..Len(j.invites) :
        j.invites[i].uses > Get(j.cached, j.invites[i].code, 0) }

\* C21: a join whose fetched snapshot has more than one invite that is new
\* or has more uses than in the cached snapshot increments no counter.
C21_AmbiguousJoinDiscarded ==
    [][(JoinHandled /\ Cardinality(ChangedInvites(env'.join)) > 1)
         => invite_counts' = invite_counts]_vars

\* C22: a join with exactly one invite whose use count rose above the cached
\* one (uncached counting from 0), made by another user, adds exactly 1 to
\* that inviter's counter and changes no other counter, whatever unchanged
\* invites the snapshot holds.
C22_SingleRisenInviteCredited ==
    [][(/\ JoinHandled
        /\ Cardinality(RisenInvites(env'.join)) = 1
        /\ \A i \in RisenInvites(env'.join) :
             env'.join.invites[i].inviter \notin {None, env'.join.member})
         => \A i \in RisenInvites(env'.join) :
              invite_counts' = increment_invite_count(invite_counts,
                                 env'.join.guild, env'.join.invites[i].inviter)]_vars

\* the join is attributed to an invite of the joining member: that invite is
\* the only complete one that is new or has more uses than cached
SelfInvited(j) ==
    LET hits == { i \in ChangedInvites(j) : j.invites[i].inviter # None }
    IN  /\ Cardinality(hits) = 1
        /\ \A i \in hits : j.invites[i].inviter = j.member

\* C23: a join attributed to an invite whose inviter is the joining member
\* increments no invite counter.
C23_SelfInviteNotCounted ==
    [][(JoinHandled /\ SelfInvited(env'.join))
         => invite_counts' = invite_counts]_vars

C23_Witness ==
    /\ env.join # <<>>
    /\ env.join.ran
    /\ SelfInvited(env.join)
    /\ Len(env.join.invites) = 2


\* the call of the link store made in this step
LastCall == env'.calls[Len(env'.calls)]

Called(op) == Len(env'.calls) = Len(env.calls) + 1 /\ LastCall.op = op

\* C24: link_user_account is an upsert, the last write winning: after
\* link(u, p) the lookup of u gives p, whether or not u was linked before,
\* u has one entry, and the entries of the other users are unchanged.
C24_LinkIsUpsert ==
    [][Called("link") =>
         /\ get_linked_convoy_id(linked_accounts', LastCall.user) = LastCall.arg
         /\ DOMAIN linked_accounts' = DOMAIN linked_accounts \cup {LastCall.user}
         /\ \A u \in DOMAIN linked_accounts \ {LastCall.user} :
              linked_accounts'[u] = linked_accounts[u]]_vars

\* two links of the same user to different panel accounts in a row, next to
\* another user's entry
C24_Witness ==
    /\ Len(env.calls) >= 2
    /\ env.calls[1].op = "link" /\ env.calls[2].op = "link"
    /\ env.calls[1].user = env.calls[2].user
    /\ env.calls[1].arg # env.calls[2].arg
    /\ get_linked_convoy_id(linked_accounts, env.calls[2].user) = env.calls[2].arg
    /\ "a1" \in DOMAIN linked_accounts

\* C25: unlink_user_account returns true exactly when the user had an entry,
\* and the lookup then gives none; without an entry it returns false, leaves
\* the table in memory and the file as they were and does not write the file.
C25_UnlinkResult ==
    [][Called("unlink") =>
         /\ LastCall.ret = (LastCall.user \in DOMAIN linked_accounts)
         /\ LastCall.ret =>
              get_linked_convoy_id(linked_accounts', LastCall.user) = None
         /\ ~LastCall.ret =>
              /\ linked_accounts' = linked_accounts
              /\ store_files' = store_files
              /\ LastCall.saved = "none"]_vars

\* an unlink that removed the entry, then one that found none
C25_Witness ==
    /\ Len(env.calls) >= 2
    /\ env.calls[1].op = "unlink" /\ env.calls[1].ret
    /\ env.calls[2].op = "unlink" /\ ~env.calls[2].ret
    /\ env.calls[2].saved = "none"

\* C26: when the save fails during a link or an unlink, the call still
\* returns, the table in memory keeps the change and the file keeps the table
\* saved last; a save that succeeds leaves the table of the memory in the file.
C26_SaveFailureKeepsFile ==
    [][(Called("link") \/ Called("unlink")) =>
         /\ LastCall.saved = "failed" =>
              /\ store_files'.links = store_files.links
              /\ LastCall.op = "link" =>
                   get_linked_convoy_id(linked_accounts', LastCall.user) = LastCall.arg
              /\ LastCall.op = "unlink" =>
                   LastCall.user \notin DOMAIN linked_accounts'
         /\ LastCall.saved = "ok" =>
              store_files'.links = TableFile(linked_accounts')]_vars

\* a link saved, then a link and an unlink whose saves failed: the file still
\* holds the table of the first link
C26_Witness ==
    /\ Len(env.calls) = 3
    /\ env.calls[1].op = "link" /\ env.calls[1].saved = "ok"
    /\ env.calls[2].op = "link" /\ env.calls[2].saved = "failed"
    /\ env.calls[2].arg # env.calls[1].arg
    /\ env.calls[3].op = "unlink" /\ env.calls[3].saved = "failed"
    /\ store_files.links.kind = "table"
    /\ get_linked_convoy_id(store_files.links.data, "u1") = env.calls[1].arg
    /\ "u1" \notin DOMAIN linked_accounts

\* C27: a JSON store file is never left partly written: it holds the complete
\* table it held before or the complete new one, also when a write fails and
\* when load_json_file creates a missing file.
C27_NeverPartial ==
    \A f \in DOMAIN store_files : store_files[f].kind # "partial"


\* a call of make_api_request was made in this step
ApiCalled == api'.calls = api.calls + 1

\* C28: make_api_request returns the parsed JSON body for a 2xx response
\* with a JSON body, a non-null sentinel for a 204 response, and None for
\* every non-2xx status, connection failure, timeout, undecodable JSON body
\* or other exception; it never raises to the caller.
C28_ApiResult ==
    [][ApiCalled =>
         LET a == api'.args
             r == api'.result
             ok2xx == a.transport = "response" /\ a.status \in 200..299
         IN  /\ ~r.raised
             /\ a.session # "none" =>
                  /\ (ok2xx /\ a.status = 204) => (r.ret = Sentinel204 /\ r.ret # ApiNone)
                  /\ (ok2xx /\ a.status # 204 /\ a.ctype = "json" /\ decodable(a.body))
                       => r.ret = json_loads(a.body)
                  /\ (ok2xx /\ a.status # 204 /\ a.ctype = "json" /\ ~decodable(a.body))
                       => r.ret = ApiNone
                  /\ (a.transport = "response" /\ a.status \notin 200..299)
                       => r.ret = ApiNone
                  /\ a.transport # "response" => r.ret = ApiNone]_vars

\* calls that returned a parsed body, the sentinel, and None after an
\* exception other than a network one
C28_Witness ==
    /\ api.calls > 0
    /\ api.args.transport = "response"
    /\ api.args.status = 500
    /\ api.args.body = "list"
    /\ api.result.ret = ApiNone

\* C29: a session found closed at the start of make_api_request is replaced
\* by a new one and the request is issued on it in the same call, with the
\* result an open session would have given.
C29_ClosedSessionRecreated ==
    [][(ApiCalled /\ api.session = "closed") =>
         LET a == api'.args
         IN  /\ api'.session = "open"
             /\ api'.result.requested
             /\ api'.result = make_api_request("open", a.interaction, a.transport,
                                               a.status, a.ctype, a.body, a.send)]_vars

C29_Witness ==
    /\ api.calls > 0
    /\ api.args.session = "closed"
    /\ api.args.transport = "response"
    /\ api.args.status = 200
    /\ api.result.ret = json_loads("dict")
    /\ api.session = "open"

\* C30: whenever make_api_request returns None and an interaction was
\* supplied, an error report is sent through it, also when the interaction's
\* response was already sent or deferred.  A 2xx response whose JSON body is
\* null is not a failure.
C30_FailureReported ==
    [][(/\ ApiCalled
        /\ api'.args.interaction # None
        /\ api'.result.ret = ApiNone
        /\ ~(/\ api'.args.session # "none"
             /\ api'.args.transport = "response"
             /\ api'.args.status \in 200..299
             /\ api'.args.ctype = "json"
             /\ api'.args.body = "null"))
         => api'.result.report # NoReport]_vars


\* C31: the payload create_vps builds for a boost or invite plan carries
\* memory = ram_gb * 1024 and disk = disk_gb * 1024, in every code path that
\* builds it.  In units of 1024: memory / 1024 = ram_gb and disk / 1024 =
\* disk_gb.
C31_PayloadInMegabytes ==
    \A r \in DOMAIN req :
        obs[r].payload # <<>>
        => /\ obs[r].payload.memory_k = req[r].plan_data.ram_gb
           /\ obs[r].payload.disk_k = req[r].plan_data.disk_gb


\* C32: a decision recorded on an AdminConfirmationView is final: the status
\* and response_admin that create_vps reads after wait() are those of the
\* first click, also when a second click arrives while the first callback
\* awaits its message edit.
C32_FirstDecisionFinal ==
    \A r \in DOMAIN req :
        (admin_view[r].finished /\ obs[r].first_status # "None")
        => /\ admin_view[r].status = obs[r].first_status
           /\ admin_view[r].response_admin = obs[r].first_admin


\* request r holds a reserved IP and its handler has not returned
InFlight(r) == HeldIp(r) # NoIp /\ ~Terminal(r)

\* C33: with a pool of distinct IPs and file writes that succeed, under any
\* interleaving of two /create requests no two in-flight requests hold the
\* same IP, no IP is both held by an in-flight request and in the pool file,
\* and no IP is in the pool file twice.
C33_ReservationsDisjoint ==
    /\ \A r1, r2 \in DOMAIN req :
         (r1 # r2 /\ InFlight(r1) /\ InFlight(r2)) => HeldIp(r1) # HeldIp(r2)
    /\ \A r \in DOMAIN req :
         InFlight(r) => Count(Entries(ipfile), HeldIp(r)) = 0
    /\ \A ip \in AsSet(Entries(ipfile)) : Count(Entries(ipfile), ip) = 1

\* both requests await their approval, one holding A and the other B, and
\* the pool file holds no entry
C33_Witness ==
    /\ InFlight("r1") /\ InFlight("r2")
    /\ req["r1"].pc = "await_admin" /\ req["r2"].pc = "await_admin"
    /\ HeldIp("r1") # HeldIp("r2")
    /\ Entries(ipfile) = <<>>

\* C35: an invite count is redeemed at most once: of two invite-plan requests
\* of one requester that were validated against the same counter value, at
\* most one reaches Created (no join is counted in between in these runs).
C35_RedeemedOnce ==
    \A r1, r2 \in DOMAIN req :
        (/\ r1 # r2
         /\ req[r1].user = req[r2].user
         /\ req[r1].plan_type = "invite" /\ req[r2].plan_type = "invite"
         /\ obs[r1].invites_at_check = obs[r2].invites_at_check
         /\ obs[r1].outcome = "Created")
        => obs[r2].outcome # "Created"


\* C34: every request that posted an approval request eventually reaches one
\* of the outcomes Created, CreationFailed, Denied, TimedOut, also when the
\* message edit of the decision callback fails before stop() is called.
C34_DecisionReached ==
    \A r \in Reqs :
        (req[r].pc = "await_admin")
            ~> (obs[r].outcome \in {"Created", "CreationFailed", "Denied", "TimedOut"})

\* no join handler is between its sleep and its end
JoinsSettled ==
    /\ env.handlers # <<>>
    /\ \A m \in JoinMembers : env.handlers[m].pc \in {"none", "done"}

\* C36: once every join handler has ended, with no fetch of the invites
\* failed, each inviter's counter has risen by exactly the number of non-bot
\* members who joined through that inviter's invites, however the handlers
\* and the periodic refresh of the cache interleaved.
C36_EveryJoinCounted ==
    (JoinsSettled /\ ~env.fetch_failed) =>
        \A g \in Guilds, u \in DOMAIN env.joins_via :
            get_user_invite_count(invite_counts, g, u)
              = get_user_invite_count(env.counts_at_start, g, u)
                  + env.joins_via[u]

\* C37: a call of get_and_remove_first_ip hands out an IP only when the
\* rewrite of the pool file succeeded and took one entry of that IP out of
\* the file; when the rewrite fails the call hands out nothing.
C37_HandedOutOnlyWhenRemoved ==
    (pool.kind = "dispense" /\ pool.ret # NoIp) =>
        /\ pool.wr = "ok"
        /\ Count(Entries(ipfile), pool.ret)
             = Count(Entries(pool.before), pool.ret) - 1

\* C38: when admin_create_vps took an IP from the pool, its removal was
\* written, and the creation call failed, the IP is in the pool file again
\* once the command has ended, as often as before the command.
C38_AdminCreateReturnsIp ==
    (/\ env.admin_create # <<>>
     /\ env.admin_create.pc = "done"
     /\ env.admin_create.outcome = "CreationFailed"
     /\ env.admin_create.assigned_ip # NoIp
     /\ env.admin_create.write = "ok")
    => Count(Entries(ipfile), env.admin_create.assigned_ip)
         = Count(Entries(env.admin_create.pool_before),
                 env.admin_create.assigned_ip)

\* C39: a request that holds a reserved IP and cannot post the approval
\* request (channel id unset, channel invalid, or the send raising) has, when
\* its handler ends and its file writes succeeded, its IP back in the pool,
\* the pool holds the entries it held before the request, and no approval
\* view was sent or waited on.
C39_UnpostedRequestReleasesIp ==
    \A r \in DOMAIN req :
        (/\ Terminal(r)
         /\ obs[r].outcome = "NoChannel"
         /\ HeldIp(r) # NoIp
         /\ WritesSucceeded(r))
        => /\ Count(Entries(ipfile), HeldIp(r)) = 1
           /\ AsSet(Entries(ipfile)) = AsSet(Entries(obs[r].pool_before))
           /\ ~admin_view[r].sent

====
